---- MODULE Spec2Model ----
(***************************************************************************)
(* A model of the cognitive-membrane core: the burst segmenter of          *)
(* EnhancedTypingMonitor (src/src/core/typing_monitor.py), the             *)
(* PatternRecognizer (src/src/core/pattern_recognition.py) and the         *)
(* PatternValidator (src/src/core/pattern_validation.py).                  *)
(*                                                                         *)
(* Time is counted in whole seconds: a datetime is a natural number, a     *)
(* timedelta an integer.  A Python float that is the result of a division  *)
(* is kept exactly, as a pair <<numerator, denominator>>.                  *)
(***************************************************************************)
EXTENDS Integers, Sequences, FiniteSets, TLC

VARIABLES
    now,                \* the wall clock read by datetime.now()
    \* EnhancedTypingMonitor
    current_burst,      \* self.current_burst
    bursts,             \* self.bursts
    pause_starts,       \* self.pause_starts
    pause_ends,         \* self.pause_ends
    report,             \* the last get_recent_patterns call: its window, how many
                        \* keystrokes had been processed, and the dict returned
    stream,             \* history: every keystroke passed to _process_keystroke
    \* PatternRecognizer
    window_size,        \* self.window_size
    activity_patterns,  \* self.activity_patterns
    context_changes,    \* self.context_changes
    typing_history,     \* self._typing_history
    activity_history,   \* self._activity_history
    typed,              \* history: every sample passed to add_typing_pattern
    observed,           \* history: every sample passed to add_activity_metrics
    recent,             \* what the step just taken returned, when it was a
                        \* get_recent_patterns or get_recent_context_changes
                        \* call of the recognizer, with the call's window
    \* PatternValidator
    pattern_history,    \* self._pattern_history
    context_history,    \* self._context_history
    verdict,            \* what the step just taken returned, when it was a
                        \* validate_* call, with the call's candidate
    validations,        \* history: how many validate_* calls were made
    \* EnhancedTypingMonitor, the key handlers
    current_key,        \* self.current_key
    key_press_time,     \* self.key_press_time
    events,             \* history: every key event delivered to a handler
    keyboard_monitors,  \* how many keyboard monitors _sample_typing has
                        \* started with the key handlers registered
    \* the monitors' start() loops
    loops,              \* for each monitor, where its start() coroutine is
    current_metrics,    \* how the last get_current_metrics call ended, the
                        \* ActivityMetrics it returned, and how many calls
                        \* there have been
    \* MacOSKeyboardMonitor
    keyboard,           \* self._is_running, self._event_tap and the rest
    calls,              \* history: every start/stop call and how it ended
    \* KeyboardMonitor
    handlers,           \* self.handlers: the event types with a handler
    pressed_keys,       \* self._pressed_keys
    key_press_times,    \* self._key_press_times
    handled,            \* history: every _handle_key_* call and the handler
                        \* calls it made
    callbacks,          \* history: every call of the event-tap callback and
                        \* how it ended
    \* threads calling into one PatternRecognizer
    threads,            \* for each thread, where it is in its call
    \* a second instance of each component
    peer                \* the second instances' attributes

segVars == <<current_burst, bursts, pause_starts, pause_ends, report, stream>>
recVars == <<window_size, activity_patterns, context_changes, typing_history,
             activity_history, typed, observed>>
readVars == <<recent>>
valVars == <<pattern_history, context_history, verdict, validations>>
keyVars == <<current_key, key_press_time, events, keyboard_monitors>>
loopVars == <<loops, current_metrics>>
baseVars == <<handlers, pressed_keys, key_press_times, handled, callbacks>>
kbVars == <<keyboard, calls, baseVars>>
thrVars == <<threads>>
peerVars == <<peer>>
\* everything but the key handlers' state
restVars == <<loopVars, kbVars, thrVars, peerVars>>
extVars == <<keyVars, restVars>>
vars == <<now, segVars, recVars, readVars, valVars, extVars>>

(***************************************************************************)
(* Bounds of the model.                                                    *)
(***************************************************************************)
MaxTime == 5        \* the segmenter's clock runs from 0 to MaxTime
MaxClock == 3       \* the recognizer's clock runs from 0 to MaxClock
MaxKeys == 5        \* keystrokes processed in one behaviour
MaxSamples == 3     \* samples ingested by the recognizer in one behaviour
MaxValClock == 1    \* the validator's clock runs from 0 to MaxValClock
MaxCalls == 3       \* validate_* calls of a validator in one behaviour
MaxChangeRun == 6   \* validate_context_change calls in one run of them
MaxEvents == 4      \* key events delivered in one behaviour
MaxIterations == 2  \* passes of a monitor's sampling loop that are counted
MaxLifecycleCalls == 6  \* start and stop calls on a keyboard monitor
MaxPairCalls == 4   \* operations on two instances of the components
MaxRecordCalls == 7 \* validate_* calls of a validator handed failing candidates
MaxKeyClock == 1    \* the keyboard monitor's clock runs from 0 to MaxKeyClock
MaxHandled == 3     \* _handle_key_* calls on a keyboard monitor
MaxCallbacks == 2   \* calls of the event-tap callback
MaxMetricsCalls == 2 \* get_current_metrics calls in one behaviour

\* The window_size values a recognizer is constructed with, in seconds.
WindowSizes == {2}

(***************************************************************************)
(* Exact arithmetic on quotients <<n, d>>.  A zero denominator stands for  *)
(* a division that Python would not carry out.                             *)
(***************************************************************************)
Min(a, b) == IF a <= b THEN a ELSE b

Max(a, b) == IF a >= b THEN a ELSE b

QLe(p, q) == p[1] * q[2] <= q[1] * p[2]

QEq(p, q) == p[1] * q[2] = q[1] * p[2]

QAdd(p, q) == <<p[1] * q[2] + q[1] * p[2], p[2] * q[2]>>

QZero == <<0, 1>>

QOne == <<1, 1>>

QMin(p, q) == IF QLe(p, q) THEN p ELSE q

RECURSIVE SumSeq(_)
SumSeq(s) == IF s = <<>> THEN 0 ELSE Head(s) + SumSeq(Tail(s))

RECURSIVE QSumSeq(_)
QSumSeq(s) == IF s = <<>> THEN QZero ELSE QAdd(Head(s), QSumSeq(Tail(s)))

\* statistics.mean of a non-empty list of quotients
QMean(s) == LET t == QSumSeq(s) IN <<t[1], t[2] * Len(s)>>

Last(s) == s[Len(s)]

(***************************************************************************)
(* EnhancedTypingMonitor: the burst segmenter.                             *)
(***************************************************************************)
PauseThreshold == 2

\* The KeyStroke values a caller passes to _process_keystroke at clock value
\* t: any timestamp up to the clock, in any order.  The segmenter never reads
\* the key, so one key and one hold duration stand for all.
KeyStrokes(t) ==
    {[key |-> "a", timestamp |-> ts, duration |-> 1] : ts \in 0..t}

IsPauseStartStrict(current, next_key) ==
    next_key.timestamp - current.timestamp > PauseThreshold

IsPauseStart(current, next_key) ==
    next_key.timestamp - current.timestamp >= PauseThreshold

MakeBurst(keystrokes) ==
    LET start_time == keystrokes[1].timestamp
        end_time == Last(keystrokes).timestamp
        duration == end_time - start_time
    IN [keystrokes |-> keystrokes,
        start_time |-> start_time,
        end_time |-> end_time,
        chars_per_minute |-> <<Len(keystrokes) * 60, duration>>,
        average_keystroke_duration |->
            <<SumSeq([i \in 1..Len(keystrokes) |-> keystrokes[i].duration]),
              Len(keystrokes)>>]

\* analyze_burst without its guards: every non-empty run becomes a burst
AnalyzeBurstUnguarded(keystrokes) ==
    IF keystrokes = <<>> THEN <<>> ELSE <<MakeBurst(keystrokes)>>

\* analyze_burst with the duration guard off by one (< instead of <=)
AnalyzeBurstZeroOk(keystrokes) ==
    IF Len(keystrokes) < 2 THEN <<>>
    ELSE IF Last(keystrokes).timestamp - keystrokes[1].timestamp < 0 THEN <<>>
    ELSE <<MakeBurst(keystrokes)>>

\* analyze_burst: <<>> for None, <<burst>> for a TypingBurst
AnalyzeBurst(keystrokes) ==
    IF Len(keystrokes) < 2 THEN <<>>
    ELSE IF Last(keystrokes).timestamp - keystrokes[1].timestamp <= 0 THEN <<>>
    ELSE <<MakeBurst(keystrokes)>>

\* _process_keystroke that records the pause whether or not the run before it
\* made a burst
ProcessKeystrokeRecordingEveryPause(keystroke) ==
    /\ Len(stream) < MaxKeys
    /\ stream' = Append(stream, keystroke)
    /\ IF current_burst = <<>>
       THEN /\ current_burst' = <<keystroke>>
            /\ UNCHANGED <<bursts, pause_starts, pause_ends>>
       ELSE LET last_keystroke == Last(current_burst) IN
            IF IsPauseStart(last_keystroke, keystroke)
            THEN LET burst == AnalyzeBurst(current_burst) IN
                 /\ bursts' = bursts \o burst
                 /\ pause_starts' = Append(pause_starts, last_keystroke.timestamp)
                 /\ pause_ends' = Append(pause_ends, keystroke.timestamp)
                 /\ current_burst' = <<keystroke>>
            ELSE /\ current_burst' = Append(current_burst, keystroke)
                 /\ UNCHANGED <<bursts, pause_starts, pause_ends>>
    /\ UNCHANGED <<now, report, recVars, readVars, valVars, restVars>>

\* _process_keystroke that opens the new run with the keystroke before the
\* pause as well
ProcessKeystrokeCarryingLast(keystroke) ==
    /\ Len(stream) < MaxKeys
    /\ stream' = Append(stream, keystroke)
    /\ IF current_burst = <<>>
       THEN /\ current_burst' = <<keystroke>>
            /\ UNCHANGED <<bursts, pause_starts, pause_ends>>
       ELSE LET last_keystroke == Last(current_burst) IN
            IF IsPauseStart(last_keystroke, keystroke)
            THEN LET burst == AnalyzeBurst(current_burst) IN
                 /\ bursts' = bursts \o burst
                 /\ pause_starts' =
                        IF burst # <<>>
                        THEN Append(pause_starts, last_keystroke.timestamp)
                        ELSE pause_starts
                 /\ pause_ends' =
                        IF burst # <<>>
                        THEN Append(pause_ends, keystroke.timestamp)
                        ELSE pause_ends
                 /\ current_burst' = <<last_keystroke, keystroke>>
            ELSE /\ current_burst' = Append(current_burst, keystroke)
                 /\ UNCHANGED <<bursts, pause_starts, pause_ends>>
    /\ UNCHANGED <<now, report, recVars, readVars, valVars, restVars>>

ProcessKeystroke(keystroke) ==
    /\ Len(stream) < MaxKeys
    /\ stream' = Append(stream, keystroke)
    /\ IF current_burst = <<>>
       THEN /\ current_burst' = <<keystroke>>
            /\ UNCHANGED <<bursts, pause_starts, pause_ends>>
       ELSE LET last_keystroke == Last(current_burst) IN
            IF IsPauseStart(last_keystroke, keystroke)
            THEN LET burst == AnalyzeBurst(current_burst) IN
                 /\ bursts' = bursts \o burst
                 /\ pause_starts' =
                        IF burst # <<>>
                        THEN Append(pause_starts, last_keystroke.timestamp)
                        ELSE pause_starts
                 /\ pause_ends' =
                        IF burst # <<>>
                        THEN Append(pause_ends, keystroke.timestamp)
                        ELSE pause_ends
                 /\ current_burst' = <<keystroke>>
            ELSE /\ current_burst' = Append(current_burst, keystroke)
                 /\ UNCHANGED <<bursts, pause_starts, pause_ends>>
    /\ UNCHANGED <<now, report, recVars, readVars, valVars, restVars>>

Feed ==
    /\ \E keystroke \in KeyStrokes(now) : ProcessKeystroke(keystroke)
    /\ UNCHANGED keyVars

\* The windows a caller passes to get_recent_patterns: one second, and the
\* default of five minutes.
Windows == {1, 300}

\* zip(self.pause_starts, self.pause_ends) filtered by end > cutoff
RecentPauses(cutoff) ==
    LET n == Min(Len(pause_starts), Len(pause_ends))
        all == [i \in 1..n |-> <<pause_starts[i], pause_ends[i]>>]
        kept == SelectSeq(all, LAMBDA p : p[2] > cutoff)
    IN [i \in 1..Len(kept) |-> <<kept[i][2] - kept[i][1], 1>>]

RecentPatternsDict(window) ==
    LET cutoff == now - window
        recent_bursts == SelectSeq(bursts, LAMBDA b : b.end_time > cutoff)
        speeds == [i \in 1..Len(recent_bursts) |->
                      recent_bursts[i].chars_per_minute]
        durations == [i \in 1..Len(recent_bursts) |->
                      <<recent_bursts[i].end_time - recent_bursts[i].start_time, 1>>]
        recent_pauses == RecentPauses(cutoff)
    IN IF recent_bursts = <<>>
       THEN [average_speed |-> QZero, burst_count |-> 0,
             average_burst_duration |-> QZero,
             average_pause_duration |-> QZero]
       ELSE [average_speed |-> QMean(speeds),
             burst_count |-> Len(recent_bursts),
             average_burst_duration |-> QMean(durations),
             average_pause_duration |->
                 IF recent_pauses # <<>> THEN QMean(recent_pauses) ELSE QZero]

TypingGetRecentPatterns(window) ==
    /\ report' = [window |-> window, seen |-> Len(stream),
                  result |-> RecentPatternsDict(window)]
    /\ UNCHANGED <<now, current_burst, bursts, pause_starts, pause_ends,
                   stream, recVars, readVars, valVars, extVars>>

ReadTyping == \E window \in Windows : TypingGetRecentPatterns(window)

\* no recognizer read was the last step
NoRead == [kind |-> "none", window |-> 0, result |-> <<>>, calls |-> 0]

\* no validate_* call was the last step
NoVerdict == [kind |-> "none"]

\* None, for self.current_key and for self.key_press_time
NoKey == "None"
NoTime == -1

\* The monitors that have a start() loop.
Monitors == {"TypingMonitor", "EnhancedTypingMonitor", "FocusMonitor",
             "ToolUsageMonitor", "PerformanceMonitor"}

\* get_current_metrics has not been called
NoMetrics == [outcome |-> "none", typing_speed |-> 0, focus_duration |-> 0,
              tool_switches |-> 0, timestamp |-> 0, calls |-> 0]

\* a monitor on which start() has not been called
NewMonitor == [state |-> "constructed", iterations |-> 0, errors |-> 0]

\* the keys handed to a KeyboardMonitor: a letter and a modifier
MonitorKeys == {"a", "shift"}

\* MacOSKeyboardMonitor.__init__
NewKeyboardMonitor ==
    [is_running |-> FALSE, event_tap |-> "None", run_loop_source |-> "None",
     run_loop_thread |-> "None", current_loop |-> "None"]

\* The threads that feed one PatternRecognizer: one calls add_typing_pattern,
\* the other add_activity_metrics.
Producers == {"typing", "activity"}

\* a thread outside any call; cutoff and kept are the locals of
\* _cleanup_old_data
Idle == [pc |-> "idle", cutoff |-> 0, kept |-> <<>>]

\* the second instances, as constructed
NewPeer ==
    [current_burst |-> <<>>, bursts |-> <<>>, pause_starts |-> <<>>,
     pause_ends |-> <<>>,
     window_size |-> CHOOSE size \in WindowSizes : TRUE,
     activity_patterns |-> <<>>, context_changes |-> <<>>,
     typing_history |-> <<>>, activity_history |-> <<>>,
     pattern_history |-> <<>>, context_history |-> <<>>,
     result |-> NoVerdict,
     inputs |-> <<>>]

\* the state once the components are constructed, the recognizer with a
\* window_size out of sizes
Constructed(sizes) ==
    /\ now = 0
    /\ current_burst = <<>>
    /\ bursts = <<>>
    /\ pause_starts = <<>>
    /\ pause_ends = <<>>
    /\ report = [window |-> 0, seen |-> 0,
                 result |-> [average_speed |-> QZero, burst_count |-> 0,
                             average_burst_duration |-> QZero,
                             average_pause_duration |-> QZero]]
    /\ stream = <<>>
    /\ window_size \in sizes
    /\ activity_patterns = <<>>
    /\ context_changes = <<>>
    /\ typing_history = <<>>
    /\ activity_history = <<>>
    /\ typed = <<>>
    /\ observed = <<>>
    /\ recent = NoRead
    /\ pattern_history = <<>>
    /\ context_history = <<>>
    /\ verdict = NoVerdict
    /\ validations = 0
    /\ current_key = NoKey
    /\ key_press_time = NoTime
    /\ events = <<>>
    /\ keyboard_monitors = 0
    /\ loops = [m \in Monitors |-> NewMonitor]
    /\ current_metrics = NoMetrics
    /\ keyboard = NewKeyboardMonitor
    /\ calls = <<>>
    /\ handlers = {}
    /\ pressed_keys = {}
    /\ key_press_times = [key \in MonitorKeys |-> NoTime]
    /\ handled = <<>>
    /\ callbacks = <<>>
    /\ threads = [t \in Producers |-> Idle]
    /\ peer = NewPeer

Init == Constructed(WindowSizes)

\* datetime.now() moves on by a second
Tick(bound) ==
    /\ now < bound
    /\ now' = now + 1
    /\ recent' = NoRead
    /\ verdict' = NoVerdict
    /\ UNCHANGED <<segVars, recVars, pattern_history, context_history,
                   validations, extVars>>

TickSeg == Tick(MaxTime)

TickRec == Tick(MaxClock)

(***************************************************************************)
(* EnhancedTypingMonitor, the key handlers.  The handlers are registered   *)
(* by _sample_typing after it has set current_key and key_press_time to    *)
(* None, so that is the state the first event finds.                       *)
(***************************************************************************)
\* the keys of the keyboard
Keys == {"a", "b"}

KeyboardEvent(kind, key, timestamp) ==
    [kind |-> kind, key |-> key, timestamp |-> timestamp]

\* _on_key_press
OnKeyPress(event) ==
    /\ Len(events) < MaxEvents
    /\ events' = Append(events, event)
    /\ UNCHANGED keyboard_monitors
    /\ current_key' = event.key
    /\ key_press_time' = event.timestamp
    /\ UNCHANGED <<now, segVars, recVars, readVars, valVars, restVars>>

\* _on_key_release that pairs a release with whatever press is pending
OnKeyReleaseOfAnyKey(event) ==
    /\ Len(events) < MaxEvents
    /\ events' = Append(events, event)
    /\ UNCHANGED keyboard_monitors
    /\ IF current_key # NoKey
       THEN /\ ProcessKeystroke([key |-> event.key,
                                 timestamp |-> key_press_time,
                                 duration |-> event.timestamp - key_press_time])
            /\ current_key' = NoKey
            /\ key_press_time' = NoTime
       ELSE UNCHANGED <<now, segVars, recVars, readVars, valVars, restVars,
                        current_key, key_press_time>>

\* _on_key_release
OnKeyRelease(event) ==
    /\ Len(events) < MaxEvents
    /\ events' = Append(events, event)
    /\ UNCHANGED keyboard_monitors
    /\ IF current_key = event.key
       THEN /\ ProcessKeystroke([key |-> event.key,
                                 timestamp |-> key_press_time,
                                 duration |-> event.timestamp - key_press_time])
            /\ current_key' = NoKey
            /\ key_press_time' = NoTime
       ELSE UNCHANGED <<now, segVars, recVars, readVars, valVars, restVars,
                        current_key, key_press_time>>

\* the keyboard monitor delivers an event stamped with the clock
PressKey == \E key \in Keys : OnKeyPress(KeyboardEvent("press", key, now))

ReleaseKey == \E key \in Keys : OnKeyRelease(KeyboardEvent("release", key, now))

TickKeys == Tick(MaxClock)

NextKeys == PressKey \/ ReleaseKey \/ TickKeys

SpecKeys == Init /\ [][NextKeys]_vars

(***************************************************************************)
(* The monitors' start() coroutines.  Each is                              *)
(*     try: while True: await self._sample_...(); await asyncio.sleep(..)  *)
(*     except Exception as e: print(...)                                   *)
(* with the try statement around the loop.                                 *)
(***************************************************************************)
\* start() is called on a monitor.  ToolUsageMonitor.start first awaits the
\* start() of an EnhancedTypingMonitor of its own.
StartMonitor(m) ==
    /\ loops[m].state = "constructed"
    /\ loops' = [loops EXCEPT ![m].state =
                     IF m = "ToolUsageMonitor" THEN "typing_monitor"
                     ELSE "sampling"]
    /\ UNCHANGED <<now, segVars, recVars, readVars, valVars, keyVars, kbVars,
                   thrVars, peerVars, current_metrics>>

\* the start() that ToolUsageMonitor.start awaits returns, which it does
\* once its own loop has ended
TypingMonitorReturns ==
    /\ loops["ToolUsageMonitor"].state = "typing_monitor"
    /\ loops' = [loops EXCEPT !["ToolUsageMonitor"].state = "sampling"]
    /\ UNCHANGED <<now, segVars, recVars, readVars, valVars, keyVars, kbVars,
                   thrVars, peerVars, current_metrics>>

\* one pass of the loop body: the sample is taken and the sleep is over
SampleTaken(m) ==
    /\ loops[m].state = "sampling"
    /\ loops[m].iterations < MaxIterations
    /\ loops' = [loops EXCEPT ![m].iterations = @ + 1]
    /\ UNCHANGED <<now, segVars, recVars, readVars, valVars, keyVars, kbVars,
                   thrVars, peerVars, current_metrics>>

\* the loop body raises: control leaves the while loop for the except
\* clause, which prints the error, and start() returns
SampleRaises(m) ==
    /\ loops[m].state = "sampling"
    /\ loops' = [loops EXCEPT ![m].state = "returned", ![m].errors = @ + 1]
    /\ UNCHANGED <<now, segVars, recVars, readVars, valVars, keyVars, kbVars,
                   thrVars, peerVars, current_metrics>>

NextLoops ==
    \/ \E m \in Monitors : StartMonitor(m)
    \/ TypingMonitorReturns
    \/ \E m \in Monitors : SampleTaken(m)
    \/ \E m \in Monitors : SampleRaises(m)

SpecLoops == Init /\ [][NextLoops]_vars

(***************************************************************************)
(* MacOSKeyboardMonitor.start and stop.  A handle (the event tap, the run  *)
(* loop source, the run loop, the thread) is "None" or the name of the     *)
(* object; CGEventTapCreate returns a tap or None.                         *)
(***************************************************************************)
CallOf(op, tap, outcome) == [op |-> op, tap |-> tap, outcome |-> outcome]

\* what CGEventTapCreate may return
EventTaps == {"tap", "None"}

\* start(), with event_tap the value CGEventTapCreate returns
StartKeyboard(event_tap) ==
    /\ Len(calls) < MaxLifecycleCalls
    /\ IF keyboard.is_running
       THEN /\ calls' = Append(calls, CallOf("start", "none", "returned"))
            /\ UNCHANGED keyboard
       ELSE IF event_tap = "None"
       THEN /\ calls' = Append(calls, CallOf("start", "failed", "raised"))
            /\ keyboard' = [keyboard EXCEPT !.event_tap = "None"]
       ELSE /\ calls' = Append(calls, CallOf("start", "created", "returned"))
            /\ keyboard' = [is_running |-> TRUE,
                            event_tap |-> event_tap,
                            run_loop_source |-> "source",
                            run_loop_thread |-> "thread",
                            current_loop |-> "loop"]
    /\ UNCHANGED <<now, segVars, recVars, readVars, valVars, keyVars, loopVars,
                   thrVars, peerVars, baseVars>>

\* stop() that forgets to drop the thread
StopKeyboardKeepingThread ==
    /\ Len(calls) < MaxLifecycleCalls
    /\ calls' = Append(calls, CallOf("stop", "none", "returned"))
    /\ IF ~keyboard.is_running
       THEN UNCHANGED keyboard
       ELSE keyboard' = [NewKeyboardMonitor EXCEPT
                             !.run_loop_thread = keyboard.run_loop_thread]
    /\ UNCHANGED <<now, segVars, recVars, readVars, valVars, keyVars, loopVars,
                   thrVars, peerVars, baseVars>>

\* stop()
StopKeyboard ==
    /\ Len(calls) < MaxLifecycleCalls
    /\ calls' = Append(calls, CallOf("stop", "none", "returned"))
    /\ IF ~keyboard.is_running
       THEN UNCHANGED keyboard
       ELSE keyboard' = [is_running |-> FALSE,
                         event_tap |-> "None",
                         run_loop_source |-> "None",
                         run_loop_thread |-> "None",
                         current_loop |-> "None"]
    /\ UNCHANGED <<now, segVars, recVars, readVars, valVars, keyVars, loopVars,
                   thrVars, peerVars, baseVars>>

StartCalled == \E event_tap \in EventTaps : StartKeyboard(event_tap)

NextKeyboard == StartCalled \/ StopKeyboard

SpecKeyboard == Init /\ [][NextKeyboard]_vars

(***************************************************************************)
(* KeyboardMonitor: the handler registry and _handle_key_press and         *)
(* _handle_key_release.  _key_press_times is a dict; here it is a function *)
(* on the keys whose value is NoTime for a key the dict does not hold.  A  *)
(* handler is a callable that returns.                                     *)
(***************************************************************************)
\* the event types a handler is registered for
EventTypes == {"press", "release", "duration"}

\* the names the handlers intersect _pressed_keys with
ModifierNames == {"ctrl", "shift", "alt", "meta"}

\* KeyboardEvent(key, event_type, timestamp, modifiers)
KeyboardEventOf(key, event_type, timestamp, modifiers) ==
    [key |-> key, event_type |-> event_type, timestamp |-> timestamp,
     modifiers |-> modifiers]

\* handler(event)
EventCall(handler, event) == [handler |-> handler, event |-> event]

\* handler(key, duration)
DurationCall(key, duration) ==
    [handler |-> "duration", key |-> key, duration |-> duration]

\* one _handle_key_* call and the handler calls it made, in order
Handled(kind, key, timestamp, invoked) ==
    [kind |-> kind, key |-> key, timestamp |-> timestamp, invoked |-> invoked]

\* register_handler
RegisterHandler(event_type) ==
    /\ handlers' = handlers \cup {event_type}
    /\ UNCHANGED <<now, segVars, recVars, readVars, valVars, keyVars, loopVars,
                   thrVars, peerVars, keyboard, calls, pressed_keys,
                   key_press_times, handled, callbacks>>

\* unregister_handler
UnregisterHandler(event_type) ==
    /\ handlers' = handlers \ {event_type}
    /\ UNCHANGED <<now, segVars, recVars, readVars, valVars, keyVars, loopVars,
                   thrVars, peerVars, keyboard, calls, pressed_keys,
                   key_press_times, handled, callbacks>>

\* _handle_key_press
HandleKeyPress(key, timestamp) ==
    /\ Len(handled) < MaxHandled
    /\ pressed_keys' = pressed_keys \cup {key}
    /\ key_press_times' = [key_press_times EXCEPT ![key] = timestamp]
    /\ LET modifiers == pressed_keys' \cap ModifierNames
           event == KeyboardEventOf(key, "press", timestamp, modifiers)
           invoked == IF "press" \in handlers
                      THEN <<EventCall("press", event)>> ELSE <<>>
       IN  handled' = Append(handled, Handled("press", key, timestamp, invoked))
    /\ UNCHANGED <<now, segVars, recVars, readVars, valVars, keyVars, loopVars,
                   thrVars, peerVars, keyboard, calls, handlers, callbacks>>

\* _handle_key_release that reads the press time and leaves it in the dict
HandleKeyReleaseKeepingPressTime(key, timestamp) ==
    /\ Len(handled) < MaxHandled
    /\ pressed_keys' = pressed_keys \ {key}
    /\ LET press_time == key_press_times[key]
           modifiers == pressed_keys' \cap ModifierNames
           event == KeyboardEventOf(key, "release", timestamp, modifiers)
           released == IF "release" \in handlers
                       THEN <<EventCall("release", event)>> ELSE <<>>
           timed == IF press_time # NoTime /\ "duration" \in handlers
                    THEN <<DurationCall(key, timestamp - press_time)>>
                    ELSE <<>>
       IN  handled' = Append(handled, Handled("release", key, timestamp,
                                              released \o timed))
    /\ UNCHANGED <<now, segVars, recVars, readVars, valVars, keyVars, loopVars,
                   thrVars, peerVars, keyboard, calls, handlers, callbacks,
                   key_press_times>>

\* _handle_key_release that works out the modifiers before it drops the key
HandleKeyReleaseCountingItself(key, timestamp) ==
    /\ Len(handled) < MaxHandled
    /\ pressed_keys' = pressed_keys \ {key}
    /\ key_press_times' = [key_press_times EXCEPT ![key] = NoTime]
    /\ LET press_time == key_press_times[key]
           modifiers == pressed_keys \cap ModifierNames
           event == KeyboardEventOf(key, "release", timestamp, modifiers)
           released == IF "release" \in handlers
                       THEN <<EventCall("release", event)>> ELSE <<>>
           timed == IF press_time # NoTime /\ "duration" \in handlers
                    THEN <<DurationCall(key, timestamp - press_time)>>
                    ELSE <<>>
       IN  handled' = Append(handled, Handled("release", key, timestamp,
                                              released \o timed))
    /\ UNCHANGED <<now, segVars, recVars, readVars, valVars, keyVars, loopVars,
                   thrVars, peerVars, keyboard, calls, handlers, callbacks>>

\* _handle_key_release.  press_time is a datetime or None, and a datetime is
\* true whatever its value.
HandleKeyRelease(key, timestamp) ==
    /\ Len(handled) < MaxHandled
    /\ pressed_keys' = pressed_keys \ {key}
    /\ key_press_times' = [key_press_times EXCEPT ![key] = NoTime]
    /\ LET press_time == key_press_times[key]
           modifiers == pressed_keys' \cap ModifierNames
           event == KeyboardEventOf(key, "release", timestamp, modifiers)
           released == IF "release" \in handlers
                       THEN <<EventCall("release", event)>> ELSE <<>>
           timed == IF press_time # NoTime /\ "duration" \in handlers
                    THEN <<DurationCall(key, timestamp - press_time)>>
                    ELSE <<>>
       IN  handled' = Append(handled, Handled("release", key, timestamp,
                                              released \o timed))
    /\ UNCHANGED <<now, segVars, recVars, readVars, valVars, keyVars, loopVars,
                   thrVars, peerVars, keyboard, calls, handlers, callbacks>>

Register == \E event_type \in EventTypes : RegisterHandler(event_type)

Unregister == \E event_type \in EventTypes : UnregisterHandler(event_type)

KeyPressed == \E key \in MonitorKeys : HandleKeyPress(key, now)

KeyReleased == \E key \in MonitorKeys : HandleKeyRelease(key, now)

TickMonitor == Tick(MaxKeyClock)

\* The handlers are registered one by one, before the key events or among
\* them, so that a call finds any set of them registered.
NextMonitor == Register \/ KeyPressed \/ KeyReleased \/ TickMonitor

SpecMonitor == Init /\ [][NextMonitor]_vars

(***************************************************************************)
(* MacOSKeyboardMonitor._create_event_callback, the callback of the event  *)
(* tap.  Its body is one try statement whose except clause catches         *)
(* Exception and prints it; the return of the event follows the statement. *)
(* A handler returns or raises an Exception.                               *)
(***************************************************************************)
\* kCGEventKeyDown, kCGEventKeyUp and another type of event the tap's mask
\* lets through
TapEventTypes == {"kCGEventKeyDown", "kCGEventKeyUp", "kCGEventFlagsChanged"}

\* the keycodes of the events: a, b and one that KEY_MAP does not hold
Keycodes == {0, 11, 10}

\* _keycode_to_char for a letter: KEY_MAP.get(keycode), None for a keycode
\* not in the map, upper case when exactly one of Shift and CapsLock is on
KeycodeToChar(keycode, shift_on) ==
    CASE keycode = 0 -> IF shift_on THEN "A" ELSE "a"
      [] keycode = 11 -> IF shift_on THEN "B" ELSE "b"
      [] OTHER -> "None"

\* how the try statement's body ends for an event: the handlers it called, and
\* whether it returned the event early, fell off its end or raised
CallbackBody(event_type, keycode, shift_on, handler_raises) ==
    LET key_char == KeycodeToChar(keycode, shift_on)
        modifiers == IF shift_on THEN {"shift"} ELSE {}
        kind == IF event_type = "kCGEventKeyDown" THEN "press" ELSE "release"
        keyboard_event == KeyboardEventOf(key_char, kind, now, modifiers)
        handler == CASE event_type = "kCGEventKeyDown" -> "press"
                     [] event_type = "kCGEventKeyUp" -> "release"
                     [] OTHER -> "None"
    IN  IF key_char = "None"
        THEN [invoked |-> <<>>, ends |-> "return"]
        ELSE IF handler \in handlers
        THEN [invoked |-> <<EventCall(handler, keyboard_event)>>,
              ends |-> IF handler_raises THEN "raise" ELSE "end"]
        ELSE [invoked |-> <<>>, ends |-> "end"]

\* one call of the callback: the event it was handed, the handlers it called,
\* whether one of them raised, and what came back to the event tap
Callback(event_type, keycode, body, outcome) ==
    [event_type |-> event_type, keycode |-> keycode,
     invoked |-> body.invoked, handler_raised |-> body.ends = "raise",
     outcome |-> outcome]

\* the callback without the try statement around its body
EventCallbackUnguarded(event_type, keycode, shift_on, handler_raises) ==
    /\ Len(callbacks) < MaxCallbacks
    /\ LET body == CallbackBody(event_type, keycode, shift_on, handler_raises)
       IN  callbacks' = Append(callbacks,
               Callback(event_type, keycode, body,
                        IF body.ends = "raise" THEN "raised" ELSE "event"))
    /\ UNCHANGED <<now, segVars, recVars, readVars, valVars, keyVars, loopVars,
                   thrVars, peerVars, keyboard, calls, handlers, pressed_keys,
                   key_press_times, handled>>

\* _create_event_callback: an exception of the body is caught and printed,
\* and every way out of the try statement returns the event
EventCallback(event_type, keycode, shift_on, handler_raises) ==
    /\ Len(callbacks) < MaxCallbacks
    /\ LET body == CallbackBody(event_type, keycode, shift_on, handler_raises)
       IN  callbacks' = Append(callbacks,
               Callback(event_type, keycode, body,
                        CASE body.ends = "return" -> "event"
                          [] body.ends = "raise" -> "event"
                          [] body.ends = "end" -> "event"))
    /\ UNCHANGED <<now, segVars, recVars, readVars, valVars, keyVars, loopVars,
                   thrVars, peerVars, keyboard, calls, handlers, pressed_keys,
                   key_press_times, handled>>

EventTapped ==
    \E event_type \in TapEventTypes, keycode \in Keycodes,
       shift_on \in BOOLEAN, handler_raises \in BOOLEAN :
        EventCallback(event_type, keycode, shift_on, handler_raises)

NextCallback == Register \/ Unregister \/ EventTapped

SpecCallback == Init /\ [][NextCallback]_vars

(***************************************************************************)
(* EnhancedTypingMonitor.start and _sample_typing on darwin.  Every pass   *)
(* of the loop makes a MacOSKeyboardMonitor, sets current_key and          *)
(* key_press_time to None, registers the key handlers with the new monitor *)
(* and starts it; the monitor the pass before had started is not stopped.  *)
(* A started monitor calls the handlers for every key event.  A key event  *)
(* reaches the handler through each started monitor; the calls after the   *)
(* first find the state the first left and change nothing, and are left    *)
(* out.                                                                    *)
(***************************************************************************)
\* _sample_typing, with event_tap the value CGEventTapCreate returns to the
\* new monitor's start(), which raises when it is None
SampleTyping(event_tap) ==
    /\ loops["EnhancedTypingMonitor"].state = "sampling"
    /\ current_key' = NoKey
    /\ key_press_time' = NoTime
    /\ IF event_tap = "None"
       THEN /\ loops' = [loops EXCEPT
                             !["EnhancedTypingMonitor"].state = "returned",
                             !["EnhancedTypingMonitor"].errors = @ + 1]
            /\ UNCHANGED keyboard_monitors
       ELSE /\ loops["EnhancedTypingMonitor"].iterations < MaxIterations
            /\ loops' = [loops EXCEPT
                             !["EnhancedTypingMonitor"].iterations = @ + 1]
            /\ keyboard_monitors' = keyboard_monitors + 1
    /\ UNCHANGED <<now, segVars, recVars, readVars, valVars, events, kbVars,
                   thrVars, peerVars, current_metrics>>

StartTyping == StartMonitor("EnhancedTypingMonitor")

TypingSampled == \E event_tap \in EventTaps : SampleTyping(event_tap)

\* a started monitor delivers a key event
MonitoredPress == keyboard_monitors >= 1 /\ PressKey

MonitoredRelease == keyboard_monitors >= 1 /\ ReleaseKey

NextSampling ==
    StartTyping \/ TypingSampled \/ MonitoredPress \/ MonitoredRelease
        \/ TickKeys

SpecSampling == Init /\ [][NextSampling]_vars

(***************************************************************************)
(* CoreActivityMonitor.get_current_metrics and                             *)
(* ToolUsageMonitor.get_tool_switches.  ToolUsageMonitor.start makes the   *)
(* tool monitor's EnhancedTypingMonitor before anything else, so the       *)
(* typing monitor is there once start() has been called; its bursts and    *)
(* pauses are the segmenter's.  Nothing appends to TypingMonitor's         *)
(* typing_history or sets FocusMonitor's focus_start, so calculate_metrics *)
(* gives an average speed of 0.0 and get_focus_duration gives 0.0.         *)
(***************************************************************************)
\* the window get_tool_switches passes: timedelta(minutes=1), in seconds
ToolSwitchWindow == 60

\* self.typing_monitor of the ToolUsageMonitor is no longer None
ToolTypingMonitorMade == loops["ToolUsageMonitor"].state # "constructed"

\* get_tool_switches: len(patterns['pause_starts']) of the dict that
\* get_recent_patterns returns, a KeyError when the dict has no such key
GetToolSwitches ==
    IF ~ToolTypingMonitorMade
    THEN [outcome |-> "returned", value |-> 0]
    ELSE LET patterns == RecentPatternsDict(ToolSwitchWindow)
         IN  IF "pause_starts" \in DOMAIN patterns
             THEN [outcome |-> "returned", value |-> Len(patterns.pause_starts)]
             ELSE [outcome |-> "raised", value |-> 0]

\* get_current_metrics
GetCurrentMetrics ==
    /\ current_metrics.calls < MaxMetricsCalls
    /\ current_metrics' =
           IF GetToolSwitches.outcome = "raised"
           THEN [NoMetrics EXCEPT !.outcome = "raised",
                                  !.calls = current_metrics.calls + 1]
           ELSE [outcome |-> "returned", typing_speed |-> 0,
                 focus_duration |-> 0,
                 tool_switches |-> GetToolSwitches.value, timestamp |-> now,
                 calls |-> current_metrics.calls + 1]
    /\ UNCHANGED <<now, segVars, recVars, readVars, valVars, keyVars, kbVars,
                   thrVars, peerVars, loops>>

StartToolMonitor == StartMonitor("ToolUsageMonitor")

\* the tool monitor's typing monitor processes a keystroke
ToolKeystroke == ToolTypingMonitorMade /\ Feed

NextMetrics == StartToolMonitor \/ ToolKeystroke \/ GetCurrentMetrics \/ TickSeg

SpecMetrics == Init /\ [][NextMetrics]_vars

(***************************************************************************)
(* PatternRecognizer.                                                      *)
(***************************************************************************)
\* The avg_speed values (characters per minute) of the TypingPattern
\* samples a monitor produces.
TypingSpeeds == {0, 55, 60}

\* The (typing_speed, focus_duration, tool_switches) values of the
\* ActivityMetrics samples a monitor produces.
ActivityValues == {<<60, 300, 1>>, <<30, 60, 3>>, <<50, 260, 12>>}

\* PatternRecognizer takes any number: the values above and negative ones.
AnyTypingSpeeds == TypingSpeeds \cup {-60}

AnyActivityValues == ActivityValues \cup {<<30, 60, -1>>}

\* A caller stamps a sample with the clock or with an earlier time: one
\* second earlier is inside a window of two seconds, two seconds earlier is
\* outside it.
Lags == {0, 1, 2}

Stamps(t) == {t - lag : lag \in Lags} \cap Nat

\* burst_duration and pause_duration are never read by the recognizer
TypingSamples(speeds, t) ==
    {[avg_speed |-> v, burst_duration |-> 1, pause_duration |-> 0,
      timestamp |-> ts] : v \in speeds, ts \in Stamps(t)}

ActivitySamples(values, t) ==
    {[typing_speed |-> v[1], focus_duration |-> v[2], tool_switches |-> v[3],
      timestamp |-> ts] : v \in values, ts \in Stamps(t)}

FreshByTimestampLoose(items, cutoff) ==
    SelectSeq(items, LAMBDA x : x.timestamp >= cutoff)

\* _cleanup_old_data, one list at a time
FreshByTimestamp(items, cutoff) ==
    SelectSeq(items, LAMBDA x : x.timestamp > cutoff)

FreshByEndTime(patterns, cutoff) ==
    SelectSeq(patterns, LAMBDA p : p.end_time > cutoff)

Cutoff == now - window_size

\* statistics.variance (the sample variance) of n >= 2 integers, as a quotient
Variance(xs) ==
    LET n == Len(xs)
        s == SumSeq(xs)
        sq == SumSeq([i \in 1..n |-> xs[i] * xs[i]])
    IN <<n * sq - s * s, n * (n - 1)>>

RECURSIVE MaxSeq(_)
MaxSeq(xs) ==
    IF Len(xs) = 1 THEN xs[1] ELSE Max(Head(xs), MaxSeq(Tail(xs)))

\* the typing pattern with both ends taken from the newest sample
TypingPatternOfNewest(history) ==
    [pattern_type |-> "typing",
     start_time |-> Last(history).timestamp,
     end_time |-> Last(history).timestamp,
     intensity |-> QOne,
     confidence |-> <<1, 2>>,
     metrics |-> [avg_speed |-> <<Last(history).avg_speed, 1>>,
                  consistency |-> <<1, 2>>,
                  burst_count |-> 1]]

\* the single typing ActivityPattern built from the typing window
TypingPatternOf(history) ==
    LET speeds == [i \in 1..Len(history) |-> history[i].avg_speed]
        avg_speed == <<SumSeq(speeds), Len(speeds)>>
        max_speed == MaxSeq(speeds)
        intensity == IF max_speed > 0
                     THEN <<avg_speed[1], avg_speed[2] * max_speed>>
                     ELSE QZero
        consistency == IF Len(speeds) > 1
                       THEN LET v == Variance(speeds)
                            IN <<v[2], v[2] + v[1]>>
                       ELSE <<1, 2>>
    IN [pattern_type |-> "typing",
        start_time |-> history[1].timestamp,
        end_time |-> Last(history).timestamp,
        intensity |-> intensity,
        confidence |-> consistency,
        metrics |-> [avg_speed |-> avg_speed,
                     consistency |-> consistency,
                     burst_count |-> Len(history)]]

\* _analyze_typing_patterns that keeps the previous typing pattern
AnalyzeTypingPatternsKeep(history, patterns) ==
    IF history = <<>> THEN patterns
    ELSE Append(patterns, TypingPatternOf(history))

\* _analyze_typing_patterns: the new value of activity_patterns
AnalyzeTypingPatterns(history, patterns) ==
    IF history = <<>> THEN patterns
    ELSE Append(SelectSeq(patterns, LAMBDA p : p.pattern_type # "typing"),
                TypingPatternOf(history))

AddTypingPattern(pattern) ==
    /\ Len(typed) + Len(observed) < MaxSamples
    /\ typed' = Append(typed, pattern)
    /\ LET history == FreshByTimestamp(Append(typing_history, pattern), Cutoff)
       IN /\ typing_history' = history
          /\ activity_patterns' =
                 AnalyzeTypingPatterns(history,
                                       FreshByEndTime(activity_patterns, Cutoff))
    /\ activity_history' = FreshByTimestamp(activity_history, Cutoff)
    /\ context_changes' = FreshByTimestamp(context_changes, Cutoff)
    /\ recent' = NoRead
    /\ UNCHANGED <<now, segVars, window_size, observed, valVars, extVars>>

ContextChangeLoose(prev, curr) ==
    IF curr.focus_duration <= prev.focus_duration
    THEN <<[timestamp |-> curr.timestamp,
            from_context |-> "focused",
            to_context |-> "switching",
            change_duration |-> curr.focus_duration,
            confidence |-> QMin(QOne, <<curr.tool_switches, 5>>)]>>
    ELSE <<>>

\* the ContextChange the loop body creates for one pair, if any
ContextChangeOf(prev, curr) ==
    IF curr.focus_duration < prev.focus_duration
    THEN <<[timestamp |-> curr.timestamp,
            from_context |-> "focused",
            to_context |-> "switching",
            change_duration |-> curr.focus_duration,
            confidence |-> QMin(QOne, <<curr.tool_switches, 5>>)]>>
    ELSE <<>>

ToolPatternLoose(prev, curr) ==
    IF curr.tool_switches >= prev.tool_switches
    THEN <<[pattern_type |-> "tool",
            start_time |-> prev.timestamp,
            end_time |-> curr.timestamp,
            intensity |-> QMin(QOne, <<curr.tool_switches, 10>>),
            confidence |-> <<8, 10>>,
            metrics |-> [switch_count |-> curr.tool_switches,
                         typing_speed |-> curr.typing_speed]]>>
    ELSE <<>>

\* the tool ActivityPattern the loop body creates for one pair, if any
ToolPatternOf(prev, curr) ==
    IF curr.tool_switches > prev.tool_switches
    THEN <<[pattern_type |-> "tool",
            start_time |-> prev.timestamp,
            end_time |-> curr.timestamp,
            intensity |-> QMin(QOne, <<curr.tool_switches, 10>>),
            confidence |-> <<8, 10>>,
            metrics |-> [switch_count |-> curr.tool_switches,
                         typing_speed |-> curr.typing_speed]]>>
    ELSE <<>>

\* the loop of _analyze_activity_metrics from index i on: what it appends to
\* context_changes
RECURSIVE NewContextChanges(_, _)
NewContextChanges(history, i) ==
    IF i > Len(history) THEN <<>>
    ELSE ContextChangeOf(history[i - 1], history[i])
             \o NewContextChanges(history, i + 1)

\* and what it appends to activity_patterns
RECURSIVE NewToolPatterns(_, _)
NewToolPatterns(history, i) ==
    IF i > Len(history) THEN <<>>
    ELSE ToolPatternOf(history[i - 1], history[i])
             \o NewToolPatterns(history, i + 1)

AddActivityMetrics(metrics) ==
    /\ Len(typed) + Len(observed) < MaxSamples
    /\ observed' = Append(observed, metrics)
    /\ LET history == FreshByTimestamp(Append(activity_history, metrics), Cutoff)
       IN /\ activity_history' = history
          /\ context_changes' =
                 FreshByTimestamp(context_changes, Cutoff)
                     \o (IF Len(history) < 2 THEN <<>>
                         ELSE NewContextChanges(history, 2))
          /\ activity_patterns' =
                 FreshByEndTime(activity_patterns, Cutoff)
                     \o (IF Len(history) < 2 THEN <<>>
                         ELSE NewToolPatterns(history, 2))
    /\ typing_history' = FreshByTimestamp(typing_history, Cutoff)
    /\ recent' = NoRead
    /\ UNCHANGED <<now, segVars, window_size, typed, valVars, extVars>>

IngestTyping ==
    \E pattern \in TypingSamples(TypingSpeeds, now) : AddTypingPattern(pattern)

IngestActivity ==
    \E metrics \in ActivitySamples(ActivityValues, now) :
        AddActivityMetrics(metrics)

NextRec == IngestTyping \/ IngestActivity \/ TickRec

SpecRec == Init /\ [][NextRec]_vars

\* The windows a caller passes to the recognizer's reads, in seconds: one
\* shorter and one longer than window_size.
Lookbacks == {1, 3}

RecentPatternsStored(window) == activity_patterns

\* the list get_recent_patterns returns
RecentPatterns(window) == FreshByEndTime(activity_patterns, now - window)

\* the list get_recent_context_changes returns
RecentContextChanges(window) ==
    FreshByTimestamp(context_changes, now - window)

\* the record of a read: calls is 2 when the step before was the same read
ReadOf(kind, window, result) ==
    [kind |-> kind, window |-> window, result |-> result,
     calls |-> IF recent.kind = kind /\ recent.window = window
               THEN 2 ELSE 1]

GetRecentPatternsEvicting(window) ==
    /\ recent' = ReadOf("patterns", window, RecentPatterns(window))
    /\ activity_patterns' = RecentPatterns(window)
    /\ verdict' = NoVerdict
    /\ UNCHANGED <<now, segVars, window_size, context_changes, typing_history,
                   activity_history, typed, observed, pattern_history,
                   context_history, validations, extVars>>

GetRecentPatterns(window) ==
    /\ recent' = ReadOf("patterns", window, RecentPatterns(window))
    /\ verdict' = NoVerdict
    /\ UNCHANGED <<now, segVars, recVars, pattern_history, context_history,
                   validations, extVars>>

GetRecentContextChanges(window) ==
    /\ recent' = ReadOf("changes", window, RecentContextChanges(window))
    /\ verdict' = NoVerdict
    /\ UNCHANGED <<now, segVars, recVars, pattern_history, context_history,
                   validations, extVars>>

ReadPatterns == \E window \in Lookbacks : GetRecentPatterns(window)

ReadChanges == \E window \in Lookbacks : GetRecentContextChanges(window)

\* typing samples of one speed
IngestSteadyTyping ==
    \E pattern \in TypingSamples({60}, now) : AddTypingPattern(pattern)

\* the recognizer fed and read
NextRecRead ==
    \/ IngestSteadyTyping
    \/ IngestActivity
    \/ ReadPatterns
    \/ ReadChanges
    \/ TickRec

SpecRecRead == Init /\ [][NextRecRead]_vars

\* the recognizer called with any numbers
IngestAnyTyping ==
    \E pattern \in TypingSamples(AnyTypingSpeeds, now) :
        AddTypingPattern(pattern)

IngestAnyActivity ==
    \E metrics \in ActivitySamples(AnyActivityValues, now) :
        AddActivityMetrics(metrics)

NextRecAny == IngestAnyTyping \/ IngestAnyActivity \/ TickRec

SpecRecAny == Init /\ [][NextRecAny]_vars

\* The window_size values a caller may pass to PatternRecognizer: __init__
\* takes any int.
AnyWindowSizes == WindowSizes \cup {-2}

InitAnyConfig == Constructed(AnyWindowSizes)

\* the recognizer constructed with any window_size
SpecRecConfig == InitAnyConfig /\ [][NextRec]_vars

(***************************************************************************)
(* Two threads feeding one PatternRecognizer.  The recognizer takes no     *)
(* lock, so the threads interleave between any two statements; a list      *)
(* comprehension reads the list, and the assignment that follows rebinds   *)
(* the attribute.                                                          *)
(***************************************************************************)
\* what a thread's step leaves alone outside the recognizer
thrFrame == <<now, segVars, window_size, readVars, valVars, keyVars, loopVars,
              kbVars, peerVars>>

\* self._typing_history.append(pattern), the first statement of
\* add_typing_pattern
BeginAddTypingPattern(pattern) ==
    /\ threads["typing"].pc = "idle"
    /\ Len(typed) + Len(observed) < MaxSamples
    /\ typed' = Append(typed, pattern)
    /\ typing_history' = Append(typing_history, pattern)
    /\ threads' = [threads EXCEPT !["typing"].pc = "cutoff"]
    /\ UNCHANGED <<thrFrame, activity_patterns, context_changes,
                   activity_history, observed>>

\* self._activity_history.append(metrics), the first statement of
\* add_activity_metrics
BeginAddActivityMetrics(metrics) ==
    /\ threads["activity"].pc = "idle"
    /\ Len(typed) + Len(observed) < MaxSamples
    /\ observed' = Append(observed, metrics)
    /\ activity_history' = Append(activity_history, metrics)
    /\ threads' = [threads EXCEPT !["activity"].pc = "cutoff"]
    /\ UNCHANGED <<thrFrame, activity_patterns, context_changes,
                   typing_history, typed>>

\* thread t moves to pc, holding kept
Goes(t, pc, kept) ==
    threads' = [threads EXCEPT ![t].pc = pc, ![t].kept = kept]

\* _cleanup_old_data, one statement or half a statement at a time
CleanupOldData(t) ==
    LET self == threads[t] IN
    /\ UNCHANGED <<thrFrame, typed, observed>>
    /\ \/ /\ self.pc = "cutoff"
          /\ threads' = [threads EXCEPT ![t].pc = "typing_read",
                                        ![t].cutoff = now - window_size]
          /\ UNCHANGED <<typing_history, activity_history, activity_patterns,
                         context_changes>>
       \/ /\ self.pc = "typing_read"
          /\ Goes(t, "typing_write",
                  FreshByTimestamp(typing_history, self.cutoff))
          /\ UNCHANGED <<typing_history, activity_history, activity_patterns,
                         context_changes>>
       \/ /\ self.pc = "typing_write"
          /\ typing_history' = self.kept
          /\ Goes(t, "activity_read", <<>>)
          /\ UNCHANGED <<activity_history, activity_patterns, context_changes>>
       \/ /\ self.pc = "activity_read"
          /\ Goes(t, "activity_write",
                  FreshByTimestamp(activity_history, self.cutoff))
          /\ UNCHANGED <<typing_history, activity_history, activity_patterns,
                         context_changes>>
       \/ /\ self.pc = "activity_write"
          /\ activity_history' = self.kept
          /\ Goes(t, "patterns_read", <<>>)
          /\ UNCHANGED <<typing_history, activity_patterns, context_changes>>
       \/ /\ self.pc = "patterns_read"
          /\ Goes(t, "patterns_write",
                  FreshByEndTime(activity_patterns, self.cutoff))
          /\ UNCHANGED <<typing_history, activity_history, activity_patterns,
                         context_changes>>
       \/ /\ self.pc = "patterns_write"
          /\ activity_patterns' = self.kept
          /\ Goes(t, "changes_read", <<>>)
          /\ UNCHANGED <<typing_history, activity_history, context_changes>>
       \/ /\ self.pc = "changes_read"
          /\ Goes(t, "changes_write",
                  FreshByTimestamp(context_changes, self.cutoff))
          /\ UNCHANGED <<typing_history, activity_history, activity_patterns,
                         context_changes>>
       \/ /\ self.pc = "changes_write"
          /\ context_changes' = self.kept
          /\ threads' = [threads EXCEPT ![t] = [Idle EXCEPT !.pc = "analyze"]]
          /\ UNCHANGED <<typing_history, activity_history, activity_patterns>>

\* _analyze_typing_patterns: the comprehension that drops the typing
\* patterns, then the assignment, the computation and the append
AnalyzeTypingPatternsByThread ==
    LET self == threads["typing"] IN
    /\ UNCHANGED <<thrFrame, typed, observed, typing_history,
                   activity_history, context_changes>>
    /\ \/ /\ self.pc = "analyze"
          /\ IF typing_history = <<>>
             THEN Goes("typing", "idle", <<>>)
             ELSE Goes("typing", "analyze_write",
                       SelectSeq(activity_patterns,
                                 LAMBDA p : p.pattern_type # "typing"))
          /\ UNCHANGED activity_patterns
       \/ /\ self.pc = "analyze_write"
          /\ activity_patterns' =
                 IF typing_history = <<>> THEN self.kept
                 ELSE Append(self.kept, TypingPatternOf(typing_history))
          /\ Goes("typing", "idle", <<>>)

\* _analyze_activity_metrics
AnalyzeActivityMetricsByThread ==
    /\ threads["activity"].pc = "analyze"
    /\ context_changes' =
           context_changes
               \o (IF Len(activity_history) < 2 THEN <<>>
                   ELSE NewContextChanges(activity_history, 2))
    /\ activity_patterns' =
           activity_patterns
               \o (IF Len(activity_history) < 2 THEN <<>>
                   ELSE NewToolPatterns(activity_history, 2))
    /\ Goes("activity", "idle", <<>>)
    /\ UNCHANGED <<thrFrame, typed, observed, typing_history,
                   activity_history>>

\* the samples the two threads bring
ThreadTypingSpeeds == {60}

ThreadActivityValues == {<<60, 300, 1>>, <<30, 60, 3>>}

TypingThread ==
    \/ \E pattern \in TypingSamples(ThreadTypingSpeeds, now) :
           BeginAddTypingPattern(pattern)
    \/ CleanupOldData("typing")
    \/ AnalyzeTypingPatternsByThread

ActivityThread ==
    \/ \E metrics \in ActivitySamples(ThreadActivityValues, now) :
           BeginAddActivityMetrics(metrics)
    \/ CleanupOldData("activity")
    \/ AnalyzeActivityMetricsByThread

NextThreads == TypingThread \/ ActivityThread \/ TickRec

SpecThreads == Init /\ [][NextThreads]_vars

(***************************************************************************)
(* PatternValidator.  The candidates are its inputs, whatever produced     *)
(* them.  Confidences, intensities and the consistency metric are counted  *)
(* in tenths here: 0.5 is 5, 1.0 is 10.                                    *)
(***************************************************************************)
MinConfidence == 5          \* min_confidence = 0.5
MinDuration == 1            \* min_duration = 1.0 seconds
MaxVariance == 100          \* max_variance = 100.0
HistoryWindow == 1800       \* timedelta(minutes=30)
TrailingMinute == 60        \* timedelta(minutes=1)
MaxChangesPerMinute == 5    \* len(recent_changes) > 5
SimilarityBand == 2         \* abs(...) < 0.2
ConfidenceBoost == 1        \* len(similar_patterns) * 0.1
ConfidencePenalty == 2      \* len(anomalies) * 0.2
FullConfidence == 10        \* min(1.0, ...)
LowConsistency == 3         \* metrics['consistency'] < 0.3
FewBursts == 2              \* metrics['burst_count'] < 2

Abs(x) == IF x < 0 THEN -x ELSE x

\* The metric names, in the order the loops of the validator visit them.
MetricNames == <<"consistency", "burst_count", "avg_speed", "switch_count">>

\* how many model units make one unit of the metric
MetricUnit(name) == IF name = "consistency" THEN 10 ELSE 1

ActivityPatternOf(type, intensity, confidence, duration, metrics, end) ==
    [pattern_type |-> type, start_time |-> end - duration, end_time |-> end,
     intensity |-> intensity, confidence |-> confidence, metrics |-> metrics]

TypingMetricsOf(consistency, burst_count, speed) ==
    [consistency |-> consistency, burst_count |-> burst_count,
     avg_speed |-> speed]

TypingMetrics(speed) == TypingMetricsOf(8, 3, speed)

\* The patterns handed to validate_activity_pattern at time t: typing
\* patterns of close, of distant and of equal intensity, of plain, low and
\* full confidence, long enough and too short, with usual and unusual
\* speeds, a tool pattern, patterns that ended a second inside and right
\* at the edge of the history window, and typing patterns of another
\* intensity with a low consistency, a single burst or both.
PatternCandidates(t) ==
    {ActivityPatternOf("typing", 8, 7, 5, TypingMetrics(60), t - age) :
         age \in {0, HistoryWindow - 1, HistoryWindow}}
    \cup {ActivityPatternOf("typing", 7, 10, 5, TypingMetrics(61), t),
          ActivityPatternOf("typing", 8, 5, 5, TypingMetrics(200), t),
          ActivityPatternOf("typing", 6, 7, 5, TypingMetrics(60), t),
          ActivityPatternOf("tool", 8, 7, 5, [switch_count |-> 3], t),
          ActivityPatternOf("typing", 8, 3, 5, TypingMetrics(60), t),
          ActivityPatternOf("typing", 8, 7, 0, TypingMetrics(60), t),
          ActivityPatternOf("typing", 8, 3, 0, TypingMetrics(60), t),
          ActivityPatternOf("typing", 3, 7, 5, TypingMetricsOf(2, 3, 60), t),
          ActivityPatternOf("typing", 3, 10, 5, TypingMetricsOf(2, 1, 60), t),
          ActivityPatternOf("typing", 3, 8, 5, TypingMetricsOf(3, 1, 60), t)}

ContextChangeAt(timestamp, duration, confidence) ==
    [timestamp |-> timestamp, from_context |-> "focused",
     to_context |-> "switching", change_duration |-> duration,
     confidence |-> confidence]

\* The changes handed to validate_context_change at time t, among other
\* calls: passing both checks, failing either, and at the edge of the
\* history window.
ChangeCandidates(t) ==
    {ContextChangeAt(t, 2, 7), ContextChangeAt(t, 2, 3),
     ContextChangeAt(t, 0, 7), ContextChangeAt(t - HistoryWindow, 2, 7)}

\* The changes handed to validate_context_change at time t in a run of such
\* calls: now, a second inside and right at the edge of the trailing
\* minute, and one of low confidence.
ChangeRunCandidates(t) ==
    {ContextChangeAt(t, 2, 7), ContextChangeAt(t - (TrailingMinute - 1), 1, 5),
     ContextChangeAt(t - TrailingMinute, 2, 7), ContextChangeAt(t, 2, 3)}

KeptPatternsAll(history) == history

\* _cleanup_old_patterns, one list at a time
KeptPatterns(history) ==
    SelectSeq(history, LAMBDA p : p.end_time > now - HistoryWindow)

KeptChanges(history) ==
    SelectSeq(history, LAMBDA c : c.timestamp > now - HistoryWindow)

\* _get_recent_changes
GetRecentChanges(history, window) ==
    SelectSeq(history, LAMBDA c : c.timestamp > now - window)

\* _find_similar_patterns; the comparison p != pattern of two dataclass
\* instances is a comparison of their fields
FindSimilarPatterns(history, pattern) ==
    SelectSeq(history,
              LAMBDA p : /\ p.pattern_type = pattern.pattern_type
                         /\ Abs(p.intensity - pattern.intensity)
                                < SimilarityBand
                         /\ p # pattern)

\* a ValidationResult (its metrics left out) and the return statement that
\* built it.  rounding tells where the float that _validate_new_pattern
\* computes lies: -1 below, 1 above the tenth in confidence, 0 on it; the
\* other return statements compare nothing with it and leave it 0.
ResultOf(stage, is_valid, confidence, anomalies) ==
    [stage |-> stage, is_valid |-> is_valid, confidence |-> confidence,
     anomalies |-> anomalies, rounding |-> 0]

RejectShortPatternKeepingConfidence(pattern) ==
    ResultOf("duration", FALSE, pattern.confidence,
             <<"Pattern duration too short">>)

RejectShortPattern(pattern) ==
    ResultOf("duration", FALSE, 0, <<"Pattern duration too short">>)

RejectLowConfidencePatternAtZero(pattern) ==
    ResultOf("confidence", FALSE, 0, <<"Pattern confidence too low">>)

RejectLowConfidencePattern(pattern) ==
    ResultOf("confidence", FALSE, pattern.confidence,
             <<"Pattern confidence too low">>)

RejectLowConfidenceChange(change) ==
    ResultOf("confidence", FALSE, change.confidence,
             <<"Context change confidence too low">>)

RejectShortChange(change) ==
    ResultOf("duration", FALSE, 0, <<"Context change duration too short">>)

\* base_confidence - len(anomalies) * 0.2 in IEEE double arithmetic, for a
\* confidence of 0 to 10 tenths and up to two anomalies: where the float
\* difference lies with respect to the double nearest the decimal
\* difference (0.7 - 0.2 is 0.49999999999999994, 0.8 - 0.2 is
\* 0.6000000000000001)
PenaltyRounding(base_confidence, anomaly_count) ==
    IF <<base_confidence, anomaly_count>>
           \in {<<3, 1>>, <<5, 2>>, <<6, 1>>, <<6, 2>>, <<7, 1>>, <<7, 2>>}
    THEN -1
    ELSE IF <<base_confidence, anomaly_count>> = <<8, 1>> THEN 1
    ELSE 0

\* x >= bound for the float that lies at tenth x with the given rounding
FloatGe(x, rounding, bound) == x > bound \/ (x = bound /\ rounding >= 0)

\* the anomalies _validate_new_pattern collects
InternalAnomalies(metrics) ==
    (IF /\ "consistency" \in DOMAIN metrics
        /\ metrics.consistency < LowConsistency
     THEN <<"Low internal consistency">> ELSE <<>>)
    \o (IF /\ "burst_count" \in DOMAIN metrics
           /\ metrics.burst_count < FewBursts
        THEN <<"Insufficient data points">> ELSE <<>>)

ValidateNewPatternStrict(pattern) ==
    LET anomalies == InternalAnomalies(pattern.metrics)
        final_confidence ==
            Max(0, pattern.confidence - Len(anomalies) * ConfidencePenalty)
        rounding == PenaltyRounding(pattern.confidence, Len(anomalies))
    IN [ResultOf("new",
                 /\ FloatGe(final_confidence, rounding, MinConfidence)
                 /\ anomalies = <<>>,
                 final_confidence, anomalies)
        EXCEPT !.rounding = rounding]

\* _validate_new_pattern
ValidateNewPattern(pattern) ==
    LET anomalies == InternalAnomalies(pattern.metrics)
        final_confidence ==
            Max(0, pattern.confidence - Len(anomalies) * ConfidencePenalty)
        rounding == PenaltyRounding(pattern.confidence, Len(anomalies))
    IN [ResultOf("new",
                 FloatGe(final_confidence, rounding, MinConfidence),
                 final_confidence, anomalies)
        EXCEPT !.rounding = rounding]

\* historical_values for one metric
HistoricalValues(similar_patterns, metric_name) ==
    LET having == SelectSeq(similar_patterns,
                            LAMBDA p : metric_name \in DOMAIN p.metrics)
    IN [i \in 1..Len(having) |-> having[i].metrics[metric_name]]

IsUnusualUnguarded(current, values, unit) ==
    LET n == Len(values)
        s == SumSeq(values)
        sq == SumSeq([i \in 1..n |-> values[i] * values[i]])
        spread == n * sq - s * s
    IN Abs(current * n - s) * (n - 1) * unit > MaxVariance * spread

\* var > 0 and abs(current - avg) / var > max_variance, for values counted
\* in a unit-th of the metric's unit: with n values of sum s and sum of
\* squares sq, avg is s / n and var is (n sq - s s) / (n (n - 1))
IsUnusual(current, values, unit) ==
    LET n == Len(values)
        s == SumSeq(values)
        sq == SumSeq([i \in 1..n |-> values[i] * values[i]])
        spread == n * sq - s * s
    IN /\ n > 1
       /\ spread > 0
       /\ Abs(current * n - s) * (n - 1) * unit > MaxVariance * spread

AnomalyLabel(metric_name) ==
    CASE metric_name = "consistency" -> "Unusual consistency value"
      [] metric_name = "burst_count" -> "Unusual burst_count value"
      [] metric_name = "avg_speed" -> "Unusual avg_speed value"
      [] metric_name = "switch_count" -> "Unusual switch_count value"

UnusualLabels == {AnomalyLabel(MetricNames[i]) : i \in 1..Len(MetricNames)}

\* the anomalies the loop of _validate_against_history collects
HistoryAnomalies(pattern, similar_patterns) ==
    LET unusual ==
            SelectSeq(MetricNames,
                      LAMBDA m : /\ m \in DOMAIN pattern.metrics
                                 /\ IsUnusual(pattern.metrics[m],
                                        HistoricalValues(similar_patterns, m),
                                        MetricUnit(m)))
    IN [i \in 1..Len(unusual) |-> AnomalyLabel(unusual[i])]

ValidateAgainstHistoryUnclamped(pattern, similar_patterns) ==
    LET anomalies == HistoryAnomalies(pattern, similar_patterns)
        final_confidence ==
            pattern.confidence + Len(similar_patterns) * ConfidenceBoost
                - Len(anomalies) * ConfidencePenalty
    IN ResultOf("history",
                final_confidence >= MinConfidence /\ anomalies = <<>>,
                final_confidence, anomalies)

ValidateAgainstHistoryLenient(pattern, similar_patterns) ==
    LET anomalies == HistoryAnomalies(pattern, similar_patterns)
        final_confidence ==
            Min(FullConfidence,
                Max(0, pattern.confidence
                           + Len(similar_patterns) * ConfidenceBoost
                           - Len(anomalies) * ConfidencePenalty))
    IN ResultOf("history", final_confidence >= MinConfidence,
                final_confidence, anomalies)

\* _validate_against_history
ValidateAgainstHistory(pattern, similar_patterns) ==
    LET anomalies == HistoryAnomalies(pattern, similar_patterns)
        final_confidence ==
            Min(FullConfidence,
                Max(0, pattern.confidence
                           + Len(similar_patterns) * ConfidenceBoost
                           - Len(anomalies) * ConfidencePenalty))
    IN ResultOf("history",
                final_confidence >= MinConfidence /\ anomalies = <<>>,
                final_confidence, anomalies)

\* what a validate_* call returned, with its candidate, the history the
\* call found and the similar patterns it looked up
VerdictOf(kind, candidate, prior, similar, result) ==
    [kind |-> kind, candidate |-> candidate, prior |-> prior,
     similar |-> similar, stage |-> result.stage,
     is_valid |-> result.is_valid, confidence |-> result.confidence,
     anomalies |-> result.anomalies, rounding |-> result.rounding]

ValidateActivityPattern(pattern) ==
    LET recorded == KeptPatterns(Append(pattern_history, pattern))
        duration == pattern.end_time - pattern.start_time
        similar_patterns == FindSimilarPatterns(recorded, pattern)
        gated == \/ duration < MinDuration
                 \/ pattern.confidence < MinConfidence
        result ==
            IF duration < MinDuration THEN RejectShortPattern(pattern)
            ELSE IF pattern.confidence < MinConfidence
            THEN RejectLowConfidencePattern(pattern)
            ELSE IF similar_patterns = <<>> THEN ValidateNewPattern(pattern)
            ELSE ValidateAgainstHistory(pattern, similar_patterns)
    IN /\ pattern_history' = recorded
       /\ context_history' = KeptChanges(context_history)
       /\ verdict' = VerdictOf("pattern", pattern, pattern_history,
                               IF gated THEN <<>> ELSE similar_patterns,
                               result)
       /\ validations' = validations + 1
       /\ recent' = NoRead
       /\ UNCHANGED <<now, segVars, recVars, extVars>>

TooManyChangesFromFive(recent_changes) ==
    Len(recent_changes) >= MaxChangesPerMinute

TooManyChanges(recent_changes) == Len(recent_changes) > MaxChangesPerMinute

\* what validate_context_change returns, recorded being the history with
\* the change in it
ContextChangeResult(recorded, change) ==
    LET recent_changes == GetRecentChanges(recorded, TrailingMinute)
    IN IF change.confidence < MinConfidence
       THEN RejectLowConfidenceChange(change)
       ELSE IF change.change_duration < MinDuration
       THEN RejectShortChange(change)
       ELSE IF TooManyChanges(recent_changes)
       THEN ResultOf("frequency", FALSE, 0, <<"Too many context changes">>)
       ELSE ResultOf("accepted", TRUE, change.confidence, <<>>)

\* validate_context_change that appends the change only once it has passed
\* the confidence and duration checks
ValidateContextChangeGatingFirst(change) ==
    LET passed == /\ change.confidence >= MinConfidence
                  /\ change.change_duration >= MinDuration
        recorded == IF passed
                    THEN KeptChanges(Append(context_history, change))
                    ELSE KeptChanges(context_history)
        result == ContextChangeResult(recorded, change)
    IN /\ context_history' = recorded
       /\ pattern_history' = KeptPatterns(pattern_history)
       /\ verdict' = VerdictOf("change", change, context_history, <<>>,
                               result)
       /\ validations' = validations + 1
       /\ recent' = NoRead
       /\ UNCHANGED <<now, segVars, recVars, extVars>>

ValidateContextChange(change) ==
    LET recorded == KeptChanges(Append(context_history, change))
        result == ContextChangeResult(recorded, change)
    IN /\ context_history' = recorded
       /\ pattern_history' = KeptPatterns(pattern_history)
       /\ verdict' = VerdictOf("change", change, context_history, <<>>,
                               result)
       /\ validations' = validations + 1
       /\ recent' = NoRead
       /\ UNCHANGED <<now, segVars, recVars, extVars>>

TickVal == Tick(MaxValClock)

\* a validator handed patterns and context changes
JudgePattern ==
    /\ validations < MaxCalls
    /\ \E pattern \in PatternCandidates(now) : ValidateActivityPattern(pattern)

JudgeChange ==
    /\ validations < MaxCalls
    /\ \E change \in ChangeCandidates(now) : ValidateContextChange(change)

NextVal == JudgePattern \/ JudgeChange \/ TickVal

SpecVal == Init /\ [][NextVal]_vars

\* a validator handed a run of context changes
JudgeChangeRun ==
    /\ validations < MaxChangeRun
    /\ \E change \in ChangeRunCandidates(now) : ValidateContextChange(change)

NextChangeRun == JudgeChangeRun \/ TickVal

SpecChangeRun == Init /\ [][NextChangeRun]_vars

(***************************************************************************)
(* Two instances of each component.  The first instances are the           *)
(* variables above; the attributes of the second ones, each made by its    *)
(* own __init__ call, are the fields of peer.                              *)
(***************************************************************************)
\* _process_keystroke, as a function of the monitor's attributes
ProcessedKeystroke(monitor, keystroke) ==
    IF monitor.current_burst = <<>>
    THEN [monitor EXCEPT !.current_burst = <<keystroke>>]
    ELSE LET last_keystroke == Last(monitor.current_burst) IN
         IF IsPauseStart(last_keystroke, keystroke)
         THEN LET burst == AnalyzeBurst(monitor.current_burst) IN
              [monitor EXCEPT
                   !.bursts = @ \o burst,
                   !.pause_starts =
                        IF burst # <<>>
                        THEN Append(@, last_keystroke.timestamp) ELSE @,
                   !.pause_ends =
                        IF burst # <<>>
                        THEN Append(@, keystroke.timestamp) ELSE @,
                   !.current_burst = <<keystroke>>]
         ELSE [monitor EXCEPT !.current_burst = Append(@, keystroke)]

\* an operation on a second instance, and what it was given
PeerInput(component, input) == [component |-> component, input |-> input]

\* what an operation on a second instance leaves alone
peerFrame == <<now, segVars, recVars, readVars, valVars, keyVars, loopVars,
               kbVars, thrVars>>

\* how many operations the instances have been through
PairCalls == Len(stream) + Len(typed) + validations + Len(peer.inputs)

\* _process_keystroke on the second EnhancedTypingMonitor
PeerProcessKeystroke(keystroke) ==
    /\ PairCalls < MaxPairCalls
    /\ peer' = [ProcessedKeystroke(peer, keystroke) EXCEPT
                    !.inputs = Append(@, PeerInput("monitor", keystroke))]
    /\ UNCHANGED peerFrame

\* add_typing_pattern on a second PatternRecognizer whose _typing_history
\* is the list of the first one
PeerAddTypingPatternShared(pattern) ==
    /\ PairCalls < MaxPairCalls
    /\ LET cutoff == now - peer.window_size
           history == FreshByTimestamp(Append(typing_history, pattern),
                                       cutoff)
       IN /\ typing_history' = history
          /\ peer' = [peer EXCEPT
                 !.typing_history = history,
                 !.activity_history = FreshByTimestamp(@, cutoff),
                 !.context_changes = FreshByTimestamp(@, cutoff),
                 !.activity_patterns =
                      AnalyzeTypingPatterns(history,
                                            FreshByEndTime(@, cutoff)),
                 !.inputs = Append(@, PeerInput("recognizer", pattern))]
    /\ UNCHANGED <<now, segVars, window_size, activity_patterns,
                   context_changes, activity_history, typed, observed,
                   readVars, valVars, keyVars, loopVars, kbVars, thrVars>>

\* add_typing_pattern on the second PatternRecognizer
PeerAddTypingPattern(pattern) ==
    /\ PairCalls < MaxPairCalls
    /\ LET cutoff == now - peer.window_size
           history == FreshByTimestamp(Append(peer.typing_history, pattern),
                                       cutoff)
       IN peer' = [peer EXCEPT
              !.typing_history = history,
              !.activity_history = FreshByTimestamp(@, cutoff),
              !.context_changes = FreshByTimestamp(@, cutoff),
              !.activity_patterns =
                   AnalyzeTypingPatterns(history, FreshByEndTime(@, cutoff)),
              !.inputs = Append(@, PeerInput("recognizer", pattern))]
    /\ UNCHANGED peerFrame

\* validate_context_change on the second PatternValidator
PeerValidateContextChange(change) ==
    /\ PairCalls < MaxPairCalls
    /\ LET recorded == KeptChanges(Append(peer.context_history, change))
       IN peer' = [peer EXCEPT
              !.context_history = recorded,
              !.pattern_history = KeptPatterns(@),
              !.result = ContextChangeResult(recorded, change),
              !.inputs = Append(@, PeerInput("validator", change))]
    /\ UNCHANGED peerFrame

\* The keystrokes given to either monitor: two a second apart and one after
\* a pause.
PairKeyStrokes ==
    {[key |-> "a", timestamp |-> ts, duration |-> 1] : ts \in {0, 1, 3}}

\* the changes given to either validator
PairChanges(t) == {ContextChangeAt(t, 2, 7), ContextChangeAt(t, 2, 3)}

FirstMonitor ==
    /\ PairCalls < MaxPairCalls
    /\ \E keystroke \in PairKeyStrokes : ProcessKeystroke(keystroke)
    /\ UNCHANGED keyVars

FirstRecognizer == PairCalls < MaxPairCalls /\ IngestSteadyTyping

FirstValidator ==
    /\ PairCalls < MaxPairCalls
    /\ \E change \in PairChanges(now) : ValidateContextChange(change)

SecondMonitor ==
    \E keystroke \in PairKeyStrokes : PeerProcessKeystroke(keystroke)

SecondRecognizer ==
    \E pattern \in TypingSamples({60}, now) : PeerAddTypingPattern(pattern)

SecondValidator ==
    \E change \in PairChanges(now) : PeerValidateContextChange(change)

NextPair ==
    \/ FirstMonitor
    \/ FirstRecognizer
    \/ FirstValidator
    \/ SecondMonitor
    \/ SecondRecognizer
    \/ SecondValidator

SpecPair == Init /\ [][NextPair]_vars

\* A validator handed candidates of which some fail a check: a typing
\* pattern and a context change of confidence 0.7, and the same of
\* confidence 0.3.
RecordPatterns(t) ==
    {ActivityPatternOf("typing", 8, 7, 5, TypingMetrics(60), t),
     ActivityPatternOf("typing", 8, 3, 5, TypingMetrics(60), t)}

RecordPattern ==
    /\ validations < MaxRecordCalls
    /\ \E pattern \in RecordPatterns(now) : ValidateActivityPattern(pattern)

RecordChange ==
    /\ validations < MaxRecordCalls
    /\ \E change \in PairChanges(now) : ValidateContextChange(change)

NextRecord == RecordPattern \/ RecordChange \/ TickVal

SpecRecord == Init /\ [][NextRecord]_vars

(***************************************************************************)
(* Properties of the PatternRecognizer.                                    *)
(***************************************************************************)
InUnitInterval(q) == q[2] > 0 /\ 0 <= q[1] /\ q[1] <= q[2]

TypingIndices == {i \in 1..Len(activity_patterns) :
                     activity_patterns[i].pattern_type = "typing"}

InWindow(t) == t > now - window_size

\* C5: intensity and confidence of every ActivityPattern, and confidence of
\* every ContextChange, lie in [0, 1], whatever the sample values.
C5_ScoresInUnitInterval ==
    /\ \A i \in 1..Len(activity_patterns) :
          /\ InUnitInterval(activity_patterns[i].intensity)
          /\ InUnitInterval(activity_patterns[i].confidence)
    /\ \A i \in 1..Len(context_changes) :
          InUnitInterval(context_changes[i].confidence)

\* C6: activity_patterns never holds more than one pattern of type 'typing'.
C6_AtMostOneTypingPattern == Cardinality(TypingIndices) <= 1

C6_Witness ==
    /\ Len(typing_history) >= 2
    /\ Cardinality(TypingIndices) = 1
    /\ observed # <<>>

\* C7: when all n >= 1 typing samples ingested so far carry non-decreasing
\* timestamps and are inside the window, there is exactly one typing
\* pattern; it starts at the first sample's timestamp, ends at the last
\* sample's and has burst_count n.
AllTypedInOrderInWindow ==
    /\ typed # <<>>
    /\ \A i \in 1..Len(typed) : InWindow(typed[i].timestamp)
    /\ \A i \in 2..Len(typed) : typed[i].timestamp >= typed[i - 1].timestamp

C7_TypingPatternSpansSamples ==
    AllTypedInOrderInWindow =>
        /\ Cardinality(TypingIndices) = 1
        /\ \A i \in TypingIndices :
              /\ activity_patterns[i].start_time = typed[1].timestamp
              /\ activity_patterns[i].end_time = Last(typed).timestamp
              /\ activity_patterns[i].metrics.burst_count = Len(typed)

C7_Witness ==
    /\ AllTypedInOrderInWindow
    /\ Len(typed) = 3
    /\ typed[1].timestamp < typed[3].timestamp

\* C8: every ActivityPattern held starts no later than it ends.
C8_StartNotAfterEnd ==
    \A i \in 1..Len(activity_patterns) :
        activity_patterns[i].start_time <= activity_patterns[i].end_time

\* C9: one event per transition.  A ContextChange is held at most once for
\* each retained sample it was created for as the current sample, and so
\* is a tool pattern.
C9_OneEventPerTransition ==
    /\ \A i \in 1..Len(context_changes) :
          Cardinality({j \in 1..Len(context_changes) :
                          context_changes[j] = context_changes[i]})
              <= Cardinality({k \in 1..Len(activity_history) :
                    /\ activity_history[k].timestamp =
                           context_changes[i].timestamp
                    /\ activity_history[k].focus_duration =
                           context_changes[i].change_duration})
    /\ \A i \in 1..Len(activity_patterns) :
          activity_patterns[i].pattern_type = "tool" =>
              Cardinality({j \in 1..Len(activity_patterns) :
                              activity_patterns[j] = activity_patterns[i]})
                  <= Cardinality({k \in 1..Len(activity_history) :
                        /\ activity_history[k].timestamp =
                               activity_patterns[i].end_time
                        /\ activity_history[k].tool_switches =
                               activity_patterns[i].metrics.switch_count})

\* the positions, in order, of the samples of h whose focus_duration is
\* below that of the sample before
FocusDrops(h) ==
    SelectSeq([i \in 1..(Len(h) - 1) |-> i + 1],
              LAMBDA i : h[i].focus_duration < h[i - 1].focus_duration)

IsContextChangeFor(c, curr) ==
    /\ c.timestamp = curr.timestamp
    /\ c.from_context = "focused"
    /\ c.to_context = "switching"
    /\ c.change_duration = curr.focus_duration
    /\ QEq(c.confidence,
           IF curr.tool_switches >= 5 THEN QOne ELSE <<curr.tool_switches, 5>>)

\* C10: an add_activity_metrics call appends to the context changes still
\* in the window one ContextChange for each consecutive pair of the window
\* whose focus_duration drops, with the current sample's timestamp and
\* focus_duration and confidence min(1, tool_switches / 5), and nothing
\* else; with a single sample it appends nothing.  No other step appends.
C10_ContextChangeIffFocusDrop ==
    [][LET old == SelectSeq(context_changes,
                            LAMBDA c : InWindow(c.timestamp))
           drops == FocusDrops(activity_history')
       IN IF Len(observed') = Len(observed) + 1
          THEN /\ Len(context_changes') = Len(old) + Len(drops)
               /\ SubSeq(context_changes', 1, Len(old)) = old
               /\ \A k \in 1..Len(drops) :
                     IsContextChangeFor(context_changes'[Len(old) + k],
                                        activity_history'[drops[k]])
               /\ Len(activity_history') < 2 =>
                     Len(context_changes') = Len(old)
          ELSE Len(context_changes') <= Len(context_changes)]_vars

C10_Witness ==
    /\ Len(activity_history) = 3
    /\ Len(FocusDrops(activity_history)) = 1
    /\ \E i \in 1..Len(context_changes) :
          context_changes[i].confidence = QOne


\* the positions, in order, of the samples of h whose tool_switches is
\* above that of the sample before
ToolRises(h) ==
    SelectSeq([i \in 1..(Len(h) - 1) |-> i + 1],
              LAMBDA i : h[i].tool_switches > h[i - 1].tool_switches)

IsToolPatternFor(p, prev, curr) ==
    /\ p.pattern_type = "tool"
    /\ p.start_time = prev.timestamp
    /\ p.end_time = curr.timestamp
    /\ QEq(p.intensity,
           IF curr.tool_switches >= 10 THEN QOne
           ELSE <<curr.tool_switches, 10>>)
    /\ QEq(p.confidence, <<4, 5>>)
    /\ p.metrics = [switch_count |-> curr.tool_switches,
                    typing_speed |-> curr.typing_speed]

ToolPatterns(patterns) ==
    SelectSeq(patterns, LAMBDA p : p.pattern_type = "tool")

\* C11: an add_activity_metrics call appends to the activity patterns still
\* in the window one 'tool' pattern for each consecutive pair of the window
\* whose tool_switches rises, spanning the two samples' timestamps, with
\* intensity min(1, tool_switches / 10), confidence 0.8 and the current
\* sample's switch_count and typing_speed as metrics, and nothing else.  No
\* other step adds a tool pattern.
C11_ToolPatternIffSwitchRise ==
    [][LET old == SelectSeq(activity_patterns,
                            LAMBDA p : InWindow(p.end_time))
           rises == ToolRises(activity_history')
       IN IF Len(observed') = Len(observed) + 1
          THEN /\ Len(activity_patterns') = Len(old) + Len(rises)
               /\ SubSeq(activity_patterns', 1, Len(old)) = old
               /\ \A k \in 1..Len(rises) :
                     IsToolPatternFor(activity_patterns'[Len(old) + k],
                                      activity_history'[rises[k] - 1],
                                      activity_history'[rises[k]])
          ELSE Len(ToolPatterns(activity_patterns'))
                   <= Len(ToolPatterns(activity_patterns))]_vars

C11_Witness ==
    /\ Len(activity_history) = 3
    /\ Len(ToolRises(activity_history)) = 1
    /\ \E i \in 1..Len(activity_patterns) :
          /\ activity_patterns[i].pattern_type = "tool"
          /\ activity_patterns[i].intensity = QOne
          /\ activity_patterns[i].start_time < activity_patterns[i].end_time

\* the four stores of the recognizer hold only items of the window that
\* ends at t
AllStoresInWindow(t, typing, activity, patterns, changes, size) ==
    /\ \A i \in 1..Len(typing) : typing[i].timestamp > t - size
    /\ \A i \in 1..Len(activity) : activity[i].timestamp > t - size
    /\ \A i \in 1..Len(changes) : changes[i].timestamp > t - size
    /\ \A i \in 1..Len(patterns) : patterns[i].end_time > t - size

\* C12: right after an add_typing_pattern or add_activity_metrics call the
\* typing samples, activity samples and context changes held have
\* timestamp > now - window_size and the activity patterns held have
\* end_time > now - window_size; a sample ingested with a timestamp at or
\* before the cutoff is not in its history.
C12_StoresInWindowAfterAdd ==
    [][(Len(typed') + Len(observed') > Len(typed) + Len(observed)) =>
          /\ AllStoresInWindow(now', typing_history', activity_history',
                               activity_patterns', context_changes',
                               window_size')
          /\ (/\ Len(typed') > Len(typed)
              /\ Last(typed').timestamp <= now' - window_size')
                 => typing_history' =
                        SelectSeq(typing_history,
                                  LAMBDA x : InWindow(x.timestamp))
          /\ (/\ Len(observed') > Len(observed)
              /\ Last(observed').timestamp <= now' - window_size')
                 => activity_history' =
                        SelectSeq(activity_history,
                                  LAMBDA x : InWindow(x.timestamp))]_vars

\* the second typing sample was dropped by the call that ingested it, the
\* first is still held
C12_Witness ==
    /\ observed = <<>>
    /\ Len(typed) = 2
    /\ typed[2].timestamp <= now - window_size
    /\ typing_history = <<typed[1]>>
    /\ InWindow(typed[1].timestamp)
    /\ Cardinality(TypingIndices) = 1

\* C13: a get_recent_patterns or get_recent_context_changes call leaves
\* activity_patterns, context_changes and both histories as they were; a
\* call that follows the same call with the same window, nothing in
\* between, returns the same list; on a recognizer that holds nothing the
\* list is empty.
C13_ReadsLeaveStateAlone ==
    [][recent'.kind # "none" =>
          /\ recVars' = recVars
          /\ now' = now
          /\ recent'.calls = 2 => recent'.result = recent.result
          /\ (/\ activity_patterns = <<>>
              /\ context_changes = <<>>
              /\ typing_history = <<>>
              /\ activity_history = <<>>) => recent'.result = <<>>]_vars

\* a read repeated, of a store from which the window leaves something out
C13_Witness ==
    /\ recent.kind = "patterns"
    /\ recent.calls = 2
    /\ recent.result # <<>>
    /\ Len(recent.result) < Len(activity_patterns)

\* C14: the list a read returns holds, in stored order, exactly the stored
\* items with end_time (patterns) or timestamp (context changes) strictly
\* after now - window, whatever the window passed, also one longer than
\* window_size.
C14_ReadReturnsItemsAfterCutoff ==
    /\ recent.kind = "patterns" =>
          recent.result = SelectSeq(activity_patterns,
                              LAMBDA p : p.end_time > now - recent.window)
    /\ recent.kind = "changes" =>
          recent.result = SelectSeq(context_changes,
                              LAMBDA c : c.timestamp > now - recent.window)

\* a read with a window longer than window_size that returns an item older
\* than window_size and leaves out an item at the cutoff
C14_Witness ==
    /\ recent.kind = "changes"
    /\ recent.window > window_size
    /\ \E i \in 1..Len(recent.result) :
          recent.result[i].timestamp <= now - window_size
    /\ \E i \in 1..Len(context_changes) :
          context_changes[i].timestamp = now - recent.window

\* C34: a live typing pattern reflects the samples now in the typing
\* window: its burst_count is the length of the typing history and its
\* start_time the timestamp of the first sample retained, also after
\* add_activity_metrics calls that evict typing samples.
C34_TypingPatternReflectsWindow ==
    \A i \in TypingIndices :
        /\ activity_patterns[i].metrics.burst_count = Len(typing_history)
        /\ typing_history # <<>>
        /\ activity_patterns[i].start_time = typing_history[1].timestamp

NextSeg == Feed \/ ReadTyping \/ TickSeg

SpecSeg == Init /\ [][NextSeg]_vars

\* the segmenter fed with keystrokes and never read
NextFeed == Feed \/ TickSeg

SpecFeed == Init /\ [][NextFeed]_vars

(***************************************************************************)
(* Properties of the burst segmenter.                                      *)
(***************************************************************************)
Gap(s, i) == s[i].timestamp - s[i - 1].timestamp

\* a pause lies between s[i-1] and s[i]
PauseBefore(s, i) == i \in 2..Len(s) /\ Gap(s, i) >= PauseThreshold

\* the maximal runs <<first, last>> of s that a later keystroke has closed
ClosedRuns(s) ==
    {r \in (1..Len(s)) \X (1..Len(s)) :
        /\ r[1] <= r[2]
        /\ r[1] = 1 \/ PauseBefore(s, r[1])
        /\ PauseBefore(s, r[2] + 1)
        /\ \A j \in (r[1] + 1)..r[2] : ~PauseBefore(s, j)}

\* the run that is still open: the longest pause-free suffix of s
OpenRun(s) ==
    {r \in (1..Len(s)) \X {Len(s)} :
        /\ r[1] = 1 \/ PauseBefore(s, r[1])
        /\ \A j \in (r[1] + 1)..r[2] : ~PauseBefore(s, j)}

RunLength(r) == r[2] - r[1] + 1

Elapsed(s, r) == s[r[2]].timestamp - s[r[1]].timestamp

\* C1: every TypingBurst in bursts holds at least 2 keystrokes, and the
\* bursts are as many as the closed runs of at least 2 keystrokes with
\* positive elapsed time: a closed run of one keystroke is dropped.
C1_BurstsHaveTwoKeystrokes ==
    /\ \A i \in 1..Len(bursts) : Len(bursts[i].keystrokes) >= 2
    /\ Len(bursts) = Cardinality({r \in ClosedRuns(stream) :
                          RunLength(r) >= 2 /\ Elapsed(stream, r) > 0})

C1_Witness ==
    /\ bursts # <<>>
    /\ \E r \in ClosedRuns(stream) : RunLength(r) = 1

C3_PositiveElapsed ==
    \A i \in 1..Len(bursts) :
        /\ bursts[i].start_time = bursts[i].keystrokes[1].timestamp
        /\ bursts[i].end_time = Last(bursts[i].keystrokes).timestamp
        /\ bursts[i].end_time > bursts[i].start_time
        /\ bursts[i].chars_per_minute[2] > 0
        /\ bursts[i].chars_per_minute =
               <<60 * Len(bursts[i].keystrokes),
                 bursts[i].end_time - bursts[i].start_time>>

C3_Witness ==
    /\ \E r \in ClosedRuns(stream) :
          RunLength(r) >= 2 /\ Elapsed(stream, r) = 0
    /\ \E r \in ClosedRuns(stream) :
          RunLength(r) >= 2 /\ Elapsed(stream, r) < 0

\* C4: every maximal run of at least 2 keystrokes with positive elapsed
\* time is reported, the final run included: a get_recent_patterns call
\* with the default window, made after the last keystroke, counts them all.
C4_EveryRunReported ==
    (report.window = 300 /\ report.seen = Len(stream)) =>
        report.result.burst_count =
            Cardinality({r \in ClosedRuns(stream) \cup OpenRun(stream) :
                RunLength(r) >= 2 /\ Elapsed(stream, r) > 0})


\* the closed runs that made a burst
EmittedRuns(s) ==
    {r \in ClosedRuns(s) : RunLength(r) >= 2 /\ Elapsed(s, r) > 0}

RECURSIVE RunsInOrder(_)
\* a set of runs as a sequence, in the order of their first keystrokes
RunsInOrder(runs) ==
    IF runs = {} THEN <<>>
    ELSE LET first == CHOOSE r \in runs : \A q \in runs : r[1] <= q[1]
         IN <<first>> \o RunsInOrder(runs \ {first})

\* C35: pause_starts, pause_ends and bursts have the same length; the i-th
\* pause runs from the last keystroke of bursts[i] to the keystroke that
\* closed it and is at least pause_threshold long; the pause after a
\* dropped run (fewer than 2 keystrokes, or no positive duration) is not
\* recorded.
C35_PausesMatchBursts ==
    LET emitted == RunsInOrder(EmittedRuns(stream)) IN
    /\ Len(pause_starts) = Len(bursts)
    /\ Len(pause_ends) = Len(bursts)
    /\ Len(bursts) = Len(emitted)
    /\ \A i \in 1..Len(bursts) :
          /\ pause_starts[i] = Last(bursts[i].keystrokes).timestamp
          /\ pause_starts[i] = stream[emitted[i][2]].timestamp
          /\ pause_ends[i] = stream[emitted[i][2] + 1].timestamp
          /\ pause_ends[i] - pause_starts[i] >= PauseThreshold

\* a run was dropped at a pause, and a later run made a burst
C35_Witness ==
    /\ Len(pause_starts) = 1
    /\ \E r \in ClosedRuns(stream) \ EmittedRuns(stream) :
          \E q \in EmittedRuns(stream) : r[2] < q[1]

\* the keystrokes of a run
KeystrokesOf(s, r) == SubSeq(s, r[1], r[2])

\* C36: each processed keystroke is in exactly one place, an emitted burst,
\* the open current_burst or a dropped run, and never in two bursts; the
\* bursts and the keystrokes inside them are in arrival order; current_burst
\* is not empty once a keystroke has been processed.
C36_KeystrokesPartitioned ==
    LET emitted == RunsInOrder(EmittedRuns(stream))
        runs == RunsInOrder(ClosedRuns(stream) \cup OpenRun(stream))
    IN /\ Len(bursts) = Len(emitted)
       /\ \A i \in 1..Len(bursts) :
             bursts[i].keystrokes = KeystrokesOf(stream, emitted[i])
       /\ \A r \in OpenRun(stream) :
             current_burst = KeystrokesOf(stream, r)
       /\ stream # <<>> =>
             /\ runs[1][1] = 1
             /\ Last(runs)[2] = Len(stream)
             /\ \A i \in 2..Len(runs) : runs[i][1] = runs[i - 1][2] + 1
       /\ stream # <<>> => current_burst # <<>>
       /\ stream = <<>> => current_burst = <<>> /\ bursts = <<>>

\* a burst was emitted, a run was dropped and two keystrokes are in the
\* open run
C36_Witness ==
    /\ Len(bursts) = 1
    /\ ClosedRuns(stream) \ EmittedRuns(stream) # {}
    /\ Len(current_burst) = 2

(***************************************************************************)
(* Properties of the PatternValidator.                                     *)
(***************************************************************************)
PatternDuration(p) == p.end_time - p.start_time

InHistoryWindow(t) == t > now - HistoryWindow

\* C15: validate_activity_pattern on a pattern shorter than min_duration
\* returns is_valid false, confidence 0.0 and the one anomaly 'Pattern
\* duration too short', whatever the pattern's confidence and the history.
C15_ShortPatternRejected ==
    (/\ verdict.kind = "pattern"
     /\ PatternDuration(verdict.candidate) < MinDuration)
        => /\ verdict.is_valid = FALSE
           /\ verdict.confidence = 0
           /\ verdict.anomalies = <<"Pattern duration too short">>

\* a short pattern of low confidence, validated after patterns like it
C15_Witness ==
    /\ verdict.kind = "pattern"
    /\ PatternDuration(verdict.candidate) < MinDuration
    /\ verdict.candidate.confidence < MinConfidence
    /\ \E i \in 1..Len(verdict.prior) :
          /\ verdict.prior[i].pattern_type = verdict.candidate.pattern_type
          /\ verdict.prior[i].intensity = verdict.candidate.intensity
          /\ PatternDuration(verdict.prior[i]) >= MinDuration

\* the call just made was handed a candidate of sufficient duration whose
\* declared confidence is below min_confidence
RejectedForConfidence ==
    \/ /\ verdict.kind = "pattern"
       /\ PatternDuration(verdict.candidate) >= MinDuration
       /\ verdict.candidate.confidence < MinConfidence
    \/ /\ verdict.kind = "change"
       /\ verdict.candidate.change_duration >= MinDuration
       /\ verdict.candidate.confidence < MinConfidence

PassesChangeGates(c) ==
    c.confidence >= MinConfidence /\ c.change_duration >= MinDuration

InTrailingMinute(c) == c.timestamp > now - TrailingMinute

\* every validate call so far was a validate_context_change call with a
\* change that passes both checks and lies in the trailing minute
OnlyGoodRecentChanges ==
    /\ verdict.kind = "change"
    /\ Len(context_history) = validations
    /\ \A i \in 1..Len(context_history) :
          /\ PassesChangeGates(context_history[i])
          /\ InTrailingMinute(context_history[i])

\* C17: of context changes validated one after another from an empty
\* history, each passing the confidence and duration checks and all within
\* the trailing minute, the first five are valid and the sixth and every
\* later one is invalid with confidence 0.0 and the anomaly 'Too many
\* context changes'; a change that passes both checks is rejected so
\* exactly when more than 5 changes held, itself included, lie in the
\* trailing minute.
C17_SixthChangeInMinuteRejected ==
    /\ OnlyGoodRecentChanges =>
          IF validations <= MaxChangesPerMinute
          THEN verdict.is_valid = TRUE /\ verdict.anomalies = <<>>
          ELSE /\ verdict.is_valid = FALSE
               /\ verdict.confidence = 0
               /\ verdict.anomalies = <<"Too many context changes">>
    /\ (verdict.kind = "change" /\ PassesChangeGates(verdict.candidate)) =>
          ((verdict.anomalies = <<"Too many context changes">>)
              <=> Cardinality({i \in 1..Len(context_history) :
                                  InTrailingMinute(context_history[i])})
                      > MaxChangesPerMinute)

C17_Witness ==
    /\ OnlyGoodRecentChanges
    /\ validations = MaxChangesPerMinute + 1
    /\ verdict.is_valid = FALSE
    /\ \E i \in 1..Len(context_history) : context_history[i].timestamp < now

\* C18: right after a validate_activity_pattern or validate_context_change
\* call every pattern held has end_time > now - 30 min and every change
\* held has timestamp > now - 30 min; a candidate older than that is not
\* held, and no pattern older than that is among the similar patterns of
\* the call.
C18_HistoriesInWindowAfterValidate ==
    verdict.kind # "none" =>
        /\ \A i \in 1..Len(pattern_history) :
              InHistoryWindow(pattern_history[i].end_time)
        /\ \A i \in 1..Len(context_history) :
              InHistoryWindow(context_history[i].timestamp)
        /\ \A i \in 1..Len(verdict.similar) :
              InHistoryWindow(verdict.similar[i].end_time)
        /\ (/\ verdict.kind = "pattern"
            /\ ~InHistoryWindow(verdict.candidate.end_time))
               => Len(pattern_history) <= Len(verdict.prior)
        /\ (/\ verdict.kind = "change"
            /\ ~InHistoryWindow(verdict.candidate.timestamp))
               => Len(context_history) <= Len(verdict.prior)

\* a pattern older than the window validated when the pattern held has
\* aged out of the window and a change held has not
C18_Witness ==
    /\ verdict.kind = "pattern"
    /\ ~InHistoryWindow(verdict.candidate.end_time)
    /\ \E i \in 1..Len(verdict.prior) :
          ~InHistoryWindow(verdict.prior[i].end_time)
    /\ pattern_history = <<>>
    /\ context_history # <<>>

PassesPatternGates(p) ==
    PatternDuration(p) >= MinDuration /\ p.confidence >= MinConfidence

\* C19: for a candidate that reaches the lookup, the similar patterns are
\* exactly the patterns recorded by earlier calls and still in the window
\* that have the candidate's pattern_type and an intensity less than 0.2
\* away from the candidate's.
C19_SimilarSetIsEarlierMatches ==
    (verdict.kind = "pattern" /\ PassesPatternGates(verdict.candidate)) =>
        verdict.similar =
            SelectSeq(verdict.prior,
                LAMBDA p :
                    /\ InHistoryWindow(p.end_time)
                    /\ p.pattern_type = verdict.candidate.pattern_type
                    /\ Abs(p.intensity - verdict.candidate.intensity)
                           < SimilarityBand)

\* C20: for a candidate that passes both checks and has similar patterns,
\* the result confidence is declared confidence + 0.1 for each similar
\* pattern - 0.2 for each anomaly, clamped to [0, 1]; the result is valid
\* exactly when that confidence is >= min_confidence and there is no
\* anomaly; with an 'Unusual <metric> value' anomaly it is not valid.
C20_HistoryConfidenceAndValidity ==
    (/\ verdict.kind = "pattern"
     /\ PassesPatternGates(verdict.candidate)
     /\ verdict.similar # <<>>)
        => /\ verdict.confidence =
                  Min(10, Max(0, verdict.candidate.confidence
                                     + Len(verdict.similar)
                                     - 2 * Len(verdict.anomalies)))
           /\ verdict.is_valid
                  <=> (/\ verdict.confidence >= MinConfidence
                       /\ verdict.anomalies = <<>>)
           /\ (\E i \in 1..Len(verdict.anomalies) :
                  verdict.anomalies[i] \in UnusualLabels)
                  => verdict.is_valid = FALSE

\* a candidate of unusual speed whose confidence stays at min_confidence
C20_Witness ==
    /\ verdict.kind = "pattern"
    /\ PassesPatternGates(verdict.candidate)
    /\ Len(verdict.similar) = 2
    /\ verdict.anomalies = <<"Unusual avg_speed value">>
    /\ verdict.confidence >= MinConfidence
    /\ verdict.is_valid = FALSE

SimilarValues(metric_name) ==
    {verdict.similar[i].metrics[metric_name] :
        i \in {j \in 1..Len(verdict.similar) :
                  metric_name \in DOMAIN verdict.similar[j].metrics}}

\* C22: in the comparison with history, a metric whose values over the
\* similar patterns do not vary (one similar pattern, or the same value in
\* all of them) gives no 'Unusual <metric> value' anomaly, whatever the
\* candidate's value for it.
C22_NoAnomalyWithoutVariance ==
    (verdict.kind = "pattern" /\ verdict.stage = "history") =>
        \A k \in 1..Len(MetricNames) :
            Cardinality(SimilarValues(MetricNames[k])) <= 1 =>
                \A i \in 1..Len(verdict.anomalies) :
                    verdict.anomalies[i] # AnomalyLabel(MetricNames[k])

\* a candidate far off the one speed of its two similar patterns
C22_Witness ==
    /\ verdict.kind = "pattern"
    /\ verdict.stage = "history"
    /\ Len(verdict.similar) = 2
    /\ SimilarValues("avg_speed") = {60}
    /\ verdict.candidate.metrics.avg_speed = 200
    /\ verdict.anomalies = <<>>

\* C23: every validate_activity_pattern and validate_context_change call
\* returns a result, a rejection being a result with is_valid false and an
\* anomaly; when the candidate's declared confidence is in [0, 1], so is
\* the result's.
C23_ResultReturnedInUnitInterval ==
    verdict.kind # "none" =>
        /\ verdict.is_valid \in BOOLEAN
        /\ verdict.stage \in {"duration", "confidence", "frequency"} =>
               verdict.is_valid = FALSE /\ Len(verdict.anomalies) = 1
        /\ (0 <= verdict.candidate.confidence
                /\ verdict.candidate.confidence <= 10) =>
               (0 <= verdict.confidence /\ verdict.confidence <= 10)

\* a pattern declared at 1.0 with a similar pattern behind it
C23_Witness ==
    /\ verdict.kind = "pattern"
    /\ verdict.stage = "history"
    /\ verdict.candidate.confidence = 10
    /\ verdict.confidence = 10
    /\ context_history # <<>>

\* C24: a component given an invalid configuration is rejected when it is
\* constructed: a PatternRecognizer with a negative window_size never
\* comes to ingest a sample.
C24_InvalidConfigurationNeverIngests ==
    window_size < 0 => (typed = <<>> /\ observed = <<>>)

\* the patterns of a history that are like the candidate: of its type and
\* less than 0.2 away in intensity
Alike(p, candidate) ==
    /\ p.pattern_type = candidate.pattern_type
    /\ Abs(p.intensity - candidate.intensity) < SimilarityBand

ChangesInTrailingMinute ==
    Cardinality({i \in 1..Len(context_history) :
                    InTrailingMinute(context_history[i])})

\* C33: the validator records before it checks: the candidate of every
\* validate call, rejected or not, is in the history after the call while
\* it is in the window, and later calls count it: a change that failed a
\* check counts toward the 5 changes a minute, and a pattern that failed a
\* check is among the similar patterns of a later pattern like it.
C33_RecordedBeforeChecked ==
    /\ verdict.kind = "pattern" =>
          /\ InHistoryWindow(verdict.candidate.end_time) =>
                pattern_history
                    = KeptPatterns(verdict.prior) \o <<verdict.candidate>>
          /\ PassesPatternGates(verdict.candidate) =>
                \A i \in 1..Len(verdict.prior) :
                    (/\ InHistoryWindow(verdict.prior[i].end_time)
                     /\ ~PassesPatternGates(verdict.prior[i])
                     /\ Alike(verdict.prior[i], verdict.candidate))
                        => \E j \in 1..Len(verdict.similar) :
                               verdict.similar[j] = verdict.prior[i]
    /\ verdict.kind = "change" =>
          /\ InHistoryWindow(verdict.candidate.timestamp) =>
                context_history
                    = KeptChanges(verdict.prior) \o <<verdict.candidate>>
          /\ PassesChangeGates(verdict.candidate) =>
                (verdict.stage = "frequency"
                    <=> ChangesInTrailingMinute > MaxChangesPerMinute)
    /\ (/\ \A i \in 1..Len(pattern_history) :
               InHistoryWindow(pattern_history[i].end_time)
        /\ \A i \in 1..Len(context_history) :
               InHistoryWindow(context_history[i].timestamp))
          => Len(pattern_history) + Len(context_history) = validations

\* a change turned down for 'Too many context changes' when fewer than six
\* of the changes held pass the checks, a pattern that failed one being
\* held too
C33_Witness ==
    /\ verdict.kind = "change"
    /\ verdict.stage = "frequency"
    /\ Cardinality({i \in 1..Len(context_history) :
                       PassesChangeGates(context_history[i])})
           <= MaxChangesPerMinute
    /\ \E i \in 1..Len(pattern_history) :
          ~PassesPatternGates(pattern_history[i])

(***************************************************************************)
(* Properties of the key handlers.                                         *)
(***************************************************************************)
RECURSIVE LastPressTime(_)
\* when the newest press among the events was delivered
LastPressTime(evs) ==
    IF evs = <<>> THEN NoTime
    ELSE IF Last(evs).kind = "press" THEN Last(evs).timestamp
    ELSE LastPressTime(SubSeq(evs, 1, Len(evs) - 1))

\* the step delivers a release event
ReleaseStep == events' # events /\ Last(events').kind = "release"

\* the release follows a release of the same key, or no press at all
SecondOrLoneRelease ==
    \/ \A i \in 1..Len(events) : events[i].kind = "release"
    \/ /\ events # <<>>
       /\ Last(events) = [Last(events') EXCEPT !.timestamp = Last(events).timestamp]

\* C25: a release that does not match the pending press (a second release
\* of a key and a release with no press pending among them) creates no
\* KeyStroke and leaves current_burst, bursts and the pending press as they
\* were; a matching release creates exactly one KeyStroke, stamped with the
\* press time and lasting from press to release, and clears the pending
\* press.
C25_ReleasePairsWithPendingPress ==
    [][ReleaseStep =>
          LET event == Last(events') IN
          /\ current_key = event.key =>
                /\ stream' = Append(stream,
                                    [key |-> event.key,
                                     timestamp |-> LastPressTime(events),
                                     duration |-> event.timestamp
                                                      - LastPressTime(events)])
                /\ current_key' = NoKey
                /\ key_press_time' = NoTime
          /\ current_key # event.key =>
                UNCHANGED <<stream, current_burst, bursts, current_key,
                            key_press_time>>
          /\ SecondOrLoneRelease => current_key # event.key
       ]_vars

\* a press of a was released a second later, the release came a second
\* time, and a was pressed again
C25_Witness ==
    /\ Len(events) = 4
    /\ [i \in 1..4 |-> <<events[i].kind, events[i].key>>]
           = <<<<"press", "a">>, <<"release", "a">>, <<"release", "a">>,
               <<"press", "a">>>>
    /\ Len(stream) = 1
    /\ stream[1].duration = 1
    /\ current_key = "a"

\* the events of one key, in the order delivered
EventsOf(key) == SelectSeq(events, LAMBDA e : e.key = key)

\* each key's events are a press, its release, a press, its release, ...
EachPressThenItsRelease ==
    \A key \in Keys :
        \A i \in 1..Len(EventsOf(key)) :
            EventsOf(key)[i].kind = IF i % 2 = 1 THEN "press" ELSE "release"

Releases(key) ==
    Len(SelectSeq(events, LAMBDA e : e.key = key /\ e.kind = "release"))

KeyStrokesOf(key) == Len(SelectSeq(stream, LAMBDA k : k.key = key))

\* C26: presses and releases are paired by key: when each key's press is
\* followed by its own release, every such pair has produced a KeyStroke,
\* overlapping holds of two keys included.
C26_EveryPairProducesKeyStroke ==
    EachPressThenItsRelease =>
        \A key \in Keys : KeyStrokesOf(key) = Releases(key)

(***************************************************************************)
(* Properties of the recognizer under two threads.                         *)
(***************************************************************************)
AllThreadsIdle == \A t \in Producers : threads[t].pc = "idle"

\* C27: with one thread in add_typing_pattern and another in
\* add_activity_metrics, the window is mutated one call at a time: once
\* both calls have returned, every sample ingested that is still inside the
\* window is in its history, as after the calls in some serial order.
C27_NoInWindowSampleLost ==
    AllThreadsIdle =>
        /\ FreshByTimestamp(typing_history, Cutoff)
               = FreshByTimestamp(typed, Cutoff)
        /\ FreshByTimestamp(activity_history, Cutoff)
               = FreshByTimestamp(observed, Cutoff)

(***************************************************************************)
(* Properties of the monitors' loops.                                      *)
(***************************************************************************)
\* C28: an error in one sampling iteration does not stop a monitor's loop:
\* start() has not returned or raised, and the loop goes on sampling.
C28_LoopSurvivesError ==
    \A m \in Monitors : loops[m].errors > 0 => loops[m].state = "sampling"

(***************************************************************************)
(* Properties of the keyboard monitor's start and stop.                    *)
(***************************************************************************)
HandlesOf(monitor) ==
    <<monitor.event_tap, monitor.run_loop_source, monitor.run_loop_thread>>

\* C30: start() on a running monitor and stop() on a stopped one change
\* nothing; after stop() the monitor is not running and its event tap, run
\* loop source and run loop thread are None; a start() on a stopped monitor
\* that gets its event tap leaves it running, whatever came before; a
\* start() that gets no event tap raises and leaves it not running.
C30_StartStopLifecycle ==
    [][calls' # calls =>
          LET call == Last(calls') IN
          /\ (call.op = "start" /\ keyboard.is_running) =>
                 keyboard' = keyboard /\ call.outcome = "returned"
          /\ (call.op = "stop" /\ ~keyboard.is_running) =>
                 keyboard' = keyboard /\ call.outcome = "returned"
          /\ call.op = "stop" =>
                 /\ ~keyboard'.is_running
                 /\ HandlesOf(keyboard') = <<"None", "None", "None">>
          /\ (call.op = "start" /\ call.tap = "created") =>
                 /\ call.outcome = "returned"
                 /\ keyboard'.is_running
                 /\ "None" \notin {keyboard'.event_tap,
                                   keyboard'.run_loop_source,
                                   keyboard'.run_loop_thread}
          /\ (call.op = "start" /\ call.tap = "failed") =>
                 call.outcome = "raised" /\ ~keyboard'.is_running
       ]_vars

\* a monitor that was started twice over, stopped twice over, failed to
\* start and was then started again
C30_Witness ==
    /\ [i \in 1..Len(calls) |-> <<calls[i].op, calls[i].outcome>>]
           = <<<<"start", "returned">>, <<"start", "returned">>,
               <<"stop", "returned">>, <<"stop", "returned">>,
               <<"start", "raised">>, <<"start", "returned">>>>
    /\ keyboard.is_running
    /\ keyboard.run_loop_thread = "thread"

(***************************************************************************)
(* Properties of two instances.                                            *)
(***************************************************************************)
\* the windows, histories and bursts of the first instances
FirstInstances ==
    <<current_burst, bursts, pause_starts, pause_ends, activity_patterns,
      context_changes, typing_history, activity_history, pattern_history,
      context_history>>

\* what the second instances were given, one component at a time
PeerInputsTo(component) ==
    LET given == SelectSeq(peer.inputs, LAMBDA i : i.component = component)
    IN [i \in 1..Len(given) |-> given[i].input]

RECURSIVE MonitorAfter(_)
\* a new monitor's attributes after the keystrokes, one by one
MonitorAfter(keystrokes) ==
    IF keystrokes = <<>> THEN NewPeer
    ELSE ProcessedKeystroke(
             MonitorAfter(SubSeq(keystrokes, 1, Len(keystrokes) - 1)),
             Last(keystrokes))

SegmentsOf(monitor) ==
    <<monitor.current_burst, monitor.bursts, monitor.pause_starts,
      monitor.pause_ends>>

\* each monitor's bursts come from its own keystrokes, each recognizer's
\* window from its own samples and each validator's history from the
\* changes it was given
OwnInputsOnly ==
    /\ <<current_burst, bursts, pause_starts, pause_ends>>
           = SegmentsOf(MonitorAfter(stream))
    /\ SegmentsOf(peer) = SegmentsOf(MonitorAfter(PeerInputsTo("monitor")))
    /\ FreshByTimestamp(typing_history, Cutoff)
           = FreshByTimestamp(typed, Cutoff)
    /\ FreshByTimestamp(peer.typing_history, now - peer.window_size)
           = FreshByTimestamp(PeerInputsTo("recognizer"),
                              now - peer.window_size)
    /\ Len(context_history) <= validations
    /\ KeptChanges(peer.context_history)
           = KeptChanges(PeerInputsTo("validator"))

\* C29: two instances of a component are isolated: an operation on one
\* PatternRecognizer, PatternValidator or EnhancedTypingMonitor leaves the
\* windows, histories and bursts of the other instance as they were, and
\* what an instance holds comes from its own inputs only.
C29_InstancesAreIsolated ==
    /\ []OwnInputsOnly
    /\ [][/\ peer'.inputs # peer.inputs => UNCHANGED FirstInstances
          /\ peer'.inputs = peer.inputs => peer' = peer]_vars

\* the first monitor has closed a burst while the second one holds a single
\* keystroke
C29_Witness ==
    /\ bursts # <<>>
    /\ peer.bursts = <<>>
    /\ Len(peer.current_burst) = 1
    /\ Len(peer.inputs) = 1


(***************************************************************************)
(* Properties of KeyboardMonitor.                                          *)
(***************************************************************************)
\* the calls among log made to the handler of an event type
CallsTo(event_type, invoked) ==
    SelectSeq(invoked, LAMBDA call : call.handler = event_type)

\* the _handle_key_* calls of log on a key, by their places in log
CallsOn(log, key) == {k \in 1..Len(log) : log[k].key = key}

\* when the press of key that log leaves recorded was made: the key's last
\* call in log, if that is a press
RecordedPress(log, key) ==
    IF CallsOn(log, key) = {} THEN NoTime
    ELSE LET last == log[CHOOSE k \in CallsOn(log, key) :
                             \A j \in CallsOn(log, key) : j <= k]
         IN  IF last.kind = "press" THEN last.timestamp ELSE NoTime

\* the keys log leaves pressed
PressedAfter(log) ==
    {key \in MonitorKeys : RecordedPress(log, key) # NoTime}

\* C31: a release of a key calls the 'release' handler once, and calls the
\* 'duration' handler once, with the time since the key's press, when a press
\* of the key is recorded, and not at all when none is
C31_DurationOncePerRecordedPress ==
    [][\A key \in MonitorKeys :
        /\ Len(handled') = Len(handled) + 1
        /\ Last(handled').kind = "release"
        /\ Last(handled').key = key
        => LET call == Last(handled')
               press_time == RecordedPress(handled, key)
           IN  /\ "release" \in handlers
                  => Len(CallsTo("release", call.invoked)) = 1
               /\ "duration" \in handlers /\ press_time # NoTime
                  => CallsTo("duration", call.invoked) =
                         <<DurationCall(key, call.timestamp - press_time)>>
               /\ press_time = NoTime
                  => CallsTo("duration", call.invoked) = <<>>]_vars

\* a release a second after the press was timed at a second, and the release
\* of the same key that followed it was not timed, with both handlers
\* registered
C31_Witness ==
    /\ Len(handled) = 3
    /\ {"release", "duration"} \subseteq handlers
    /\ handled[1].kind = "press"
    /\ handled[2].kind = "release" /\ handled[2].key = handled[1].key
    /\ CallsTo("duration", handled[2].invoked) =
           <<DurationCall(handled[1].key, 1)>>
    /\ handled[3].kind = "release" /\ handled[3].key = handled[1].key
    /\ Len(CallsTo("release", handled[3].invoked)) = 1
    /\ CallsTo("duration", handled[3].invoked) = <<>>

\* C38: the keys with a press time are the pressed keys, and the modifiers of
\* every event handed to a handler are the modifier keys pressed once the call
\* that made the event had taken its key into account
C38_PressedKeysAndModifiers ==
    /\ {key \in MonitorKeys : key_press_times[key] # NoTime} = pressed_keys
    /\ pressed_keys = PressedAfter(handled)
    /\ \A k \in 1..Len(handled) :
           \A i \in 1..Len(handled[k].invoked) :
               LET call == handled[k].invoked[i]
               IN  call.handler \in {"press", "release"}
                   => /\ call.event.modifiers =
                             PressedAfter(SubSeq(handled, 1, k)) \cap ModifierNames
                      /\ call.event.event_type = "release"
                         => call.event.key \notin call.event.modifiers

\* the release of a held modifier was handed to the 'release' handler while
\* a letter was held
C38_Witness ==
    /\ Len(handled) = 3
    /\ handled[3].kind = "release"
    /\ handled[3].key \in ModifierNames
    /\ Len(CallsTo("release", handled[3].invoked)) = 1
    /\ handled[2].kind = "press"
    /\ Len(CallsTo("press", handled[2].invoked)) = 1
    /\ handled[2].invoked[1].event.modifiers = {handled[3].key}
    /\ pressed_keys # {}


(***************************************************************************)
(* Properties of the event-tap callback.                                   *)
(***************************************************************************)
\* C32: every call of the callback hands the event back to the event tap,
\* whatever the event and whether or not a handler raised, and a call for a
\* keycode that maps to no character calls no handler
C32_CallbackReturnsEvent ==
    \A k \in 1..Len(callbacks) :
        /\ callbacks[k].outcome = "event"
        /\ callbacks[k].keycode \notin {0, 11} => callbacks[k].invoked = <<>>

\* a key press whose handler raised and an unmapped key's release, with the
\* 'release' handler registered, were both handed back
C32_Witness ==
    /\ Len(callbacks) = 2
    /\ callbacks[1].event_type = "kCGEventKeyDown"
    /\ callbacks[1].handler_raised
    /\ Len(callbacks[1].invoked) = 1
    /\ callbacks[1].outcome = "event"
    /\ callbacks[2].event_type = "kCGEventKeyUp"
    /\ callbacks[2].keycode = 10
    /\ "release" \in handlers
    /\ callbacks[2].outcome = "event"


(***************************************************************************)
(* Properties of the sampling loop.                                        *)
(***************************************************************************)
\* the presses that the release of the same key follows as the next event
PressesReleasedNext ==
    {i \in 1..(Len(events) - 1) :
        /\ events[i].kind = "press"
        /\ events[i + 1].kind = "release"
        /\ events[i + 1].key = events[i].key}

\* C37: whatever passes of the sampling loop come between the key events,
\* every press that the release of its key follows has produced a KeyStroke,
\* and no more than one keyboard monitor with the handlers registered is
\* started
C37_PendingPressSurvivesSampling ==
    /\ Cardinality(PressesReleasedNext) <= Len(stream)
    /\ keyboard_monitors <= 1


(***************************************************************************)
(* Properties of get_current_metrics.                                      *)
(***************************************************************************)
\* the pauses of the typing monitor that ended in the last minute
PausesInLastMinute ==
    Cardinality({i \in 1..Len(pause_ends) :
                     pause_ends[i] > now - ToolSwitchWindow})

\* C39: a call of get_current_metrics never raises, before the tool monitor
\* has been started and after; the tool_switches it returns is 0 while the
\* tool monitor has no typing monitor, and the number of typing pauses of the
\* last minute once it has one
C39_MetricsAlwaysReturned ==
    [][current_metrics'.calls # current_metrics.calls
       => /\ current_metrics'.outcome = "returned"
          /\ current_metrics'.tool_switches =
                 IF ToolTypingMonitorMade THEN PausesInLastMinute ELSE 0
      ]_vars

====
